---- MODULE Spec2Model ----
(***************************************************************************)
(* A model of aptorphan's expected-set resolver (src/aptorphan.py, class   *)
(* Manager): the wave-based rank assignment (rank / rank_once), the        *)
(* unforced and forced pick rule (__resolve_once), the dependency-kind     *)
(* handlers, rank_by_name and the escalation pass rank_unresolved.         *)
(*                                                                         *)
(* The package database is a read-only snapshot `db`; the Manager's        *)
(* mutable resolution state is the record `mgr`.  `twin` is the state of a *)
(* second execution of the program on the same snapshot and the same       *)
(* sequence of calls, which resolves the orders Python leaves open (the    *)
(* enumeration of a set before a sort, set.pop) on its own.                *)
(*                                                                         *)
(* `resolver` is the state of the Resolver of the graph tool               *)
(* (src/aptorphan-graph.py), which infers the expected set on its own; the *)
(* program of src/aptorphan.py has none.                                   *)
(***************************************************************************)
EXTENDS Integers, Sequences, FiniteSets, TLC

VARIABLES db, mgr, twin, calls, resolver

vars == <<db, mgr, twin, calls, resolver>>

(***************************************************************************)
(* Bounds of the model.                                                    *)
(***************************************************************************)
\* API calls (rank_by_name, rank_unresolved) made on one Manager
MaxCalls == 3
\* dependency clauses of one generated database
MaxClauses == 2
\* alternatives of one generated or_group
MaxAlternatives == 2
\* put calls made on the Resolver of the graph tool before resolve
MaxPuts == 2

(***************************************************************************)
(* Generic helpers on sequences and sets.                                  *)
(***************************************************************************)
Range(s) == {s[i] : i \in DOMAIN s}

RECURSIVE Flatten(_)
Flatten(ss) == IF ss = <<>> THEN <<>> ELSE Head(ss) \o Flatten(Tail(ss))

RECURSIVE AppendNew(_, _)
\* result.append(target) for every target not seen before, in order
AppendNew(acc, s) ==
    IF s = <<>> THEN acc
    ELSE AppendNew(IF Head(s) \in Range(acc) THEN acc ELSE Append(acc, Head(s)), Tail(s))

RemoveAt(s, i) == SubSeq(s, 1, i - 1) \o SubSeq(s, i + 1, Len(s))

\* all enumerations of a finite set as a sequence
RECURSIVE Perms(_)
Perms(S) ==
    IF S = {} THEN {<<>>}
    ELSE UNION {{<<x>> \o p : p \in Perms(S \ {x})} : x \in S}

\* Python's None for a version
NoVersion == "-"

\* aptorphan.py creates no Resolver
NoResolver == "-"

(***************************************************************************)
(* The package database (apt_pkg.Cache / DepCache behind class Cache).     *)
(*   pkgs      cache.packages, in the cache's order                        *)
(*   name      Package.name (shared by the packages of one name on         *)
(*             different architectures)                                    *)
(*   byname    cache[name]: the native-architecture package of that name   *)
(*   vers      Package.version_list (has_versions = non-empty)             *)
(*   cand      DepCache.get_candidate_ver                                  *)
(*   provides  the versions of Package.provides_list (entry [2])           *)
(*   parent    Version.parent_pkg                                          *)
(*   prio,arch Version.priority, Version.arch                              *)
(*   foreign   apt_pkg.get_architectures()[1:]                             *)
(*   current_state, selected_state, current_ver   the Package attributes   *)
(*             of these names; current_ver is None (NoVersion) for a       *)
(*             package that has no installed version                       *)
(*   auto_installed   DepCache.is_auto_installed                           *)
(*   deps      Version.depends_list flattened in iteration order: clauses  *)
(*             [kind, group], a group (or_group) being a sequence of       *)
(*             dependencies, each given by its all_targets()               *)
(***************************************************************************)
Clause(k, g) == [kind |-> k, group |-> g]

\* Python's order on the package names used (str comparison, by code point)
NameOrder == <<"a", "b", "core", "liba", "n", "none", "p", "q", "u", "v", "w", "x", "y">>

NameKey(n) == CHOOSE i \in DOMAIN NameOrder : NameOrder[i] = n

(* The generated databases: a fixed set of packages,                       *)
(*   core  priority required, one version                                  *)
(*   a, b  optional, one version each                                      *)
(*   p     versions p_2 (candidate, optional) and p_1 (standard)           *)
(*   v     virtual, provided by p_1 only                                   *)
(*   w     virtual, provided by a_1 and b_1                                *)
(*   none  neither versions nor providers                                  *)
(* and any choice of at most MaxClauses clauses of GenClauses.             *)
GenPkgs == <<"core", "a", "b", "p", "v", "w", "none">>

GenVers == {"core_1", "a_1", "b_1", "p_2", "p_1"}

DepA == <<"a_1">>
DepB == <<"b_1">>
DepP == <<"p_2", "p_1">>
DepP2 == <<"p_2">>
DepV == <<"p_1">>
DepW == <<"a_1", "b_1">>
DepNone == <<>>

GenClauses == <<
    [src |-> "core_1", kind |-> "Depends",    group |-> <<DepA>>],
    [src |-> "core_1", kind |-> "Depends",    group |-> <<DepA, DepB>>],
    [src |-> "core_1", kind |-> "Depends",    group |-> <<DepV>>],
    [src |-> "core_1", kind |-> "Depends",    group |-> <<DepNone>>],
    [src |-> "core_1", kind |-> "Recommends", group |-> <<DepB, DepA>>],
    [src |-> "core_1", kind |-> "Breaks",     group |-> <<DepW>>],
    [src |-> "a_1",    kind |-> "Depends",    group |-> <<DepB>>],
    [src |-> "a_1",    kind |-> "PreDepends", group |-> <<DepP>>],
    [src |-> "a_1",    kind |-> "Conflicts",  group |-> <<DepB>>],
    [src |-> "a_1",    kind |-> "Replaces",   group |-> <<DepV>>],
    [src |-> "b_1",    kind |-> "Depends",    group |-> <<DepA>>],
    [src |-> "b_1",    kind |-> "Depends",    group |-> <<DepA, DepP2>>],
    [src |-> "b_1",    kind |-> "Suggests",   group |-> <<DepA>>],
    [src |-> "p_2",    kind |-> "Conflicts",  group |-> <<DepA>>],
    [src |-> "p_2",    kind |-> "Conflicts",  group |-> <<DepA, DepB>>],
    [src |-> "p_1",    kind |-> "Depends",    group |-> <<DepB, DepA>>] >>

RECURSIVE ClausesOf(_, _, _)
\* the chosen clauses of version v, in the order of GenClauses
ClausesOf(v, chosen, i) ==
    IF i > Len(GenClauses) THEN <<>>
    ELSE (IF i \in chosen /\ GenClauses[i].src = v
          THEN <<Clause(GenClauses[i].kind, GenClauses[i].group)>> ELSE <<>>)
         \o ClausesOf(v, chosen, i + 1)

GenDb(chosen) ==
    [ pkgs     |-> GenPkgs,
      name     |-> [p \in Range(GenPkgs) |-> p],
      byname   |-> [n \in Range(GenPkgs) |-> n],
      vers     |-> [p \in Range(GenPkgs) |->
                      CASE p = "core" -> <<"core_1">>
                        [] p = "a"    -> <<"a_1">>
                        [] p = "b"    -> <<"b_1">>
                        [] p = "p"    -> <<"p_2", "p_1">>
                        [] OTHER      -> <<>>],
      cand     |-> [p \in Range(GenPkgs) |->
                      CASE p = "core" -> "core_1"
                        [] p = "a"    -> "a_1"
                        [] p = "b"    -> "b_1"
                        [] p = "p"    -> "p_2"
                        [] OTHER      -> NoVersion],
      provides |-> [p \in Range(GenPkgs) |->
                      CASE p = "v" -> <<"p_1">>
                        [] p = "w" -> <<"a_1", "b_1">>
                        [] OTHER   -> <<>>],
      parent   |-> [x \in GenVers |->
                      CASE x = "core_1" -> "core"
                        [] x = "a_1"    -> "a"
                        [] x = "b_1"    -> "b"
                        [] OTHER        -> "p"],
      prio     |-> [x \in GenVers |->
                      CASE x = "core_1" -> "required"
                        [] x = "p_1"    -> "standard"
                        [] OTHER        -> "optional"],
      arch     |-> [x \in GenVers |-> "amd64"],
      foreign  |-> {"i386"},
      deps     |-> [x \in GenVers |-> ClausesOf(x, chosen, 1)],
      current_state  |-> [p \in Range(GenPkgs) |-> "NotInstalled"],
      selected_state |-> [p \in Range(GenPkgs) |-> "Unknown"],
      current_ver    |-> [p \in Range(GenPkgs) |-> NoVersion],
      auto_installed |-> [p \in Range(GenPkgs) |-> FALSE] ]

(* A multi-architecture database: package liba exists on amd64 and on the  *)
(* foreign architecture i386 (same Package.name); core depends on both.    *)
(* x_1 and y_1 are old (non-candidate) versions of x and y, reachable      *)
(* by name only through the virtual packages p and q they alone provide.   *)
ArchPkgs == <<"core", "liba", "liba:i386", "x", "y", "u", "n", "p", "q">>

ArchVers == {"core_1", "liba_1", "liba_1:i386", "x_2", "x_1", "y_2", "y_1", "u_1", "n_1"}

ArchDb ==
    [ pkgs     |-> ArchPkgs,
      name     |-> [p \in Range(ArchPkgs) |-> IF p = "liba:i386" THEN "liba" ELSE p],
      byname   |-> [n \in Range(ArchPkgs) \ {"liba:i386"} |-> n],
      vers     |-> [p \in Range(ArchPkgs) |->
                      CASE p = "core"      -> <<"core_1">>
                        [] p = "liba"      -> <<"liba_1">>
                        [] p = "liba:i386" -> <<"liba_1:i386">>
                        [] p = "x"         -> <<"x_2", "x_1">>
                        [] p = "y"         -> <<"y_2", "y_1">>
                        [] p = "u"         -> <<"u_1">>
                        [] p = "n"         -> <<"n_1">>
                        [] OTHER           -> <<>>],
      cand     |-> [p \in Range(ArchPkgs) |->
                      CASE p = "core"      -> "core_1"
                        [] p = "liba"      -> "liba_1"
                        [] p = "liba:i386" -> "liba_1:i386"
                        [] p = "x"         -> "x_2"
                        [] p = "y"         -> "y_2"
                        [] p = "u"         -> "u_1"
                        [] p = "n"         -> "n_1"
                        [] OTHER           -> NoVersion],
      provides |-> [p \in Range(ArchPkgs) |->
                      CASE p = "p" -> <<"x_1">>
                        [] p = "q" -> <<"y_1">>
                        [] OTHER   -> <<>>],
      parent   |-> [x \in ArchVers |->
                      CASE x = "core_1"      -> "core"
                        [] x = "liba_1"      -> "liba"
                        [] x = "liba_1:i386" -> "liba:i386"
                        [] x \in {"x_2", "x_1"} -> "x"
                        [] x \in {"y_2", "y_1"} -> "y"
                        [] x = "u_1"         -> "u"
                        [] OTHER             -> "n"],
      prio     |-> [x \in ArchVers |->
                      CASE x = "core_1"      -> "important"
                        [] x = "liba_1:i386" -> "standard"
                        [] OTHER             -> "optional"],
      arch     |-> [x \in ArchVers |-> IF x = "liba_1:i386" THEN "i386" ELSE "amd64"],
      foreign  |-> {"i386"},
      deps     |-> [x \in ArchVers |->
                      CASE x = "core_1"      -> <<Clause("Depends", <<(<<"liba_1">>)>>),
                                                  Clause("Depends", <<(<<"liba_1:i386">>)>>)>>
                        [] x = "liba_1"      -> <<Clause("Depends", <<(<<"x_1">>)>>)>>
                        [] x = "liba_1:i386" -> <<Clause("Depends", <<(<<"y_1">>)>>)>>
                        [] x = "x_1"         -> <<Clause("Depends", <<(<<"u_1">>), (<<"n_1">>)>>)>>
                        [] x = "y_1"         -> <<Clause("Depends", <<(<<"n_1">>), (<<"u_1">>)>>)>>
                        [] OTHER             -> <<>>],
      current_state  |-> [p \in Range(ArchPkgs) |-> "NotInstalled"],
      selected_state |-> [p \in Range(ArchPkgs) |-> "Unknown"],
      current_ver    |-> [p \in Range(ArchPkgs) |-> NoVersion],
      auto_installed |-> [p \in Range(ArchPkgs) |-> FALSE] ]

ClauseChoices == {c \in SUBSET (1..Len(GenClauses)) : Cardinality(c) <= MaxClauses}

Databases == {GenDb(c) : c \in ClauseChoices} \cup {ArchDb}

Versions(d) == DOMAIN d.parent

HasVersions(d, p) == d.vers[p] # <<>>

HasProvides(d, p) == d.provides[p] # <<>>

IsCandidate(d, v) == d.cand[d.parent[v]] = v

PkgName(d, v) == d.name[d.parent[v]]

(***************************************************************************)
(* The Manager's resolution state.  A Version wrapper's attributes are     *)
(* created lazily with the defaults of Version.defaults; a field below     *)
(* holds the default for a version whose attribute was never set.          *)
(*   rank        Version.rank (0: None)                                    *)
(*   hint        Version.hint (NoHint: None or never set)                  *)
(*   conflicts, notify, replaced_by, unresolved   as in Version.defaults   *)
(*   grank       Manager.__rank                                            *)
(*   versions    the keys of Manager.__versions, in insertion order        *)
(*   err         the exception that ended the program (NoError: none)      *)
(*   forced      history: the picks rank_unresolved has made               *)
(*   prank       Package.rank (0: None), set by dump_unresolved            *)
(*   phint       Package.hint                                              *)
(*   out         the directive lines printed, in order                     *)
(*   without_inert   this execution runs on the database with the Replaces,*)
(*               Enhances, Suggests and Obsoletes clauses removed: the     *)
(*               loop over depends_list does not meet them                 *)
(***************************************************************************)
NoHint == "-"

NoError == ""

RECURSIVE CandidatesOf(_)
\* Manager.__init__, the loop over find_packages(): the candidate versions
CandidatesOf(ps) ==
    IF ps = <<>> THEN <<>>
    ELSE (IF HasVersions(db, Head(ps)) THEN <<db.cand[Head(ps)]>> ELSE <<>>)
         \o CandidatesOf(Tail(ps))

NewManager ==
    [ rank        |-> [x \in Versions(db) |-> 0],
      hint        |-> [x \in Versions(db) |-> NoHint],
      conflicts   |-> [x \in Versions(db) |-> {}],
      notify      |-> [x \in Versions(db) |-> {}],
      replaced_by |-> [x \in Versions(db) |-> {}],
      unresolved  |-> [x \in Versions(db) |-> <<>>],
      grank       |-> 0,
      versions    |-> CandidatesOf(db.pkgs),
      err         |-> NoError,
      forced      |-> <<>>,
      prank       |-> [p \in Range(db.pkgs) |-> 0],
      phint       |-> [p \in Range(db.pkgs) |-> NoHint],
      out         |-> <<>>,
      without_inert |-> FALSE ]

\* Manager.version on every element of a sequence: map_insert into __versions
Touch(m, targets) == [m EXCEPT !.versions = AppendNew(@, targets)]

\* __expand_or_group without the `seen` set: every target of every alternative
ExpandOrGroupAll(or_group) == Flatten(or_group)

\* Manager.__expand_or_group: the targets of all alternatives, first occurrence first
ExpandOrGroup(or_group) == AppendNew(<<>>, Flatten(or_group))

\* the or_group an entry of version.unresolved refers to
GroupOf(v, entry) == db.deps[v][entry.clause].group

AnyRanked(m, targets) == \E i \in DOMAIN targets : m.rank[targets[i]] # 0

\* __resolve_once without the is_candidate_version filter
ResolveOnceAnyTarget(m, targets, use_first) ==
    LET NoConflict(c) == m.conflicts[c] = {}
        preferred == SelectSeq(targets, NoConflict)
    IN  IF Len(preferred) = 1 \/ (Len(preferred) > 1 /\ use_first) THEN preferred[1]
        ELSE IF Len(targets) = 1 \/ (Len(targets) > 1 /\ use_first) THEN targets[1]
        ELSE NoVersion

\* __resolve_once ignoring use_first: the forced rule is the unforced rule
ResolveOnceNeverFirst(m, targets, use_first) ==
    LET IsCand(t) == IsCandidate(db, t)
        candidates == SelectSeq(targets, IsCand)
        NoConflict(c) == m.conflicts[c] = {}
        preferred == SelectSeq(candidates, NoConflict)
    IN  IF Len(preferred) = 1 THEN preferred[1]
        ELSE IF Len(candidates) = 1 THEN candidates[1]
        ELSE NoVersion

\* __resolve_once taking, with use_first, the candidate whose package name is first
ResolveOnceNameFirst(m, targets, use_first) ==
    LET IsCand(t) == IsCandidate(db, t)
        candidates == SelectSeq(targets, IsCand)
        NoConflict(c) == m.conflicts[c] = {}
        preferred == SelectSeq(candidates, NoConflict)
        First(s) == CHOOSE c \in Range(s) :
                        \A d \in Range(s) : NameKey(PkgName(db, c)) <= NameKey(PkgName(db, d))
    IN  IF Len(preferred) = 1 \/ (Len(preferred) > 1 /\ use_first) THEN First(preferred)
        ELSE IF Len(candidates) = 1 \/ (Len(candidates) > 1 /\ use_first) THEN First(candidates)
        ELSE NoVersion

\* __resolve_once deciding only when use_first is set
ResolveOnceForcedOnly(m, targets, use_first) ==
    LET IsCand(t) == IsCandidate(db, t)
        candidates == SelectSeq(targets, IsCand)
        NoConflict(c) == m.conflicts[c] = {}
        preferred == SelectSeq(candidates, NoConflict)
    IN  IF Len(preferred) >= 1 /\ use_first THEN preferred[1]
        ELSE IF Len(candidates) >= 1 /\ use_first THEN candidates[1]
        ELSE NoVersion

\* Manager.__resolve_once
ResolveOnce(m, targets, use_first) ==
    LET IsCand(t) == IsCandidate(db, t)
        candidates == SelectSeq(targets, IsCand)
        NoConflict(c) == m.conflicts[c] = {}
        preferred == SelectSeq(candidates, NoConflict)
    IN  IF Len(preferred) = 1 \/ (Len(preferred) > 1 /\ use_first) THEN preferred[1]
        ELSE IF Len(candidates) = 1 \/ (Len(candidates) > 1 /\ use_first) THEN candidates[1]
        ELSE NoVersion

(***************************************************************************)
(* The handlers of the dispatch table Manager.__resolve.  A handler works  *)
(* on c = [m, pending]: the Manager and Manager.__pending_depends.         *)
(***************************************************************************)
\* __resolve_depends (the later definition, optional = True) and __resolve_recommends
ResolveDepends(c, v, i) ==
    LET targets == ExpandOrGroup(db.deps[v][i].group)
        m1 == Touch(c.m, targets)
    IN  [c EXCEPT !.m = [m1 EXCEPT
            !.unresolved[v] = Append(@, [optional |-> TRUE, clause |-> i]),
            !.notify = [t \in DOMAIN @ |-> IF t \in Range(targets) THEN @[t] \cup {v} ELSE @[t]]]]

\* __resolve_conflicts without the loop over target.notify: no subject is queued
ResolveConflictsNoRequeue(c, v, i) ==
    IF Len(db.deps[v][i].group) # 1
    THEN [c EXCEPT !.m.err = "unexpected conflicts"]
    ELSE LET targets == ExpandOrGroup(db.deps[v][i].group)
             T == Range(targets)
             m1 == Touch(c.m, targets)
             own == [m1.conflicts EXCEPT ![v] = @ \cup T]
         IN  [m |-> [m1 EXCEPT !.conflicts =
                        [t \in DOMAIN own |-> IF t \in T THEN own[t] \cup {v} ELSE own[t]]],
              pending |-> c.pending]

\* __resolve_conflicts recording the edge on the declaring version only
ResolveConflictsOneSided(c, v, i) ==
    IF Len(db.deps[v][i].group) # 1
    THEN [c EXCEPT !.m.err = "unexpected conflicts"]
    ELSE LET targets == ExpandOrGroup(db.deps[v][i].group)
             T == Range(targets)
             m1 == Touch(c.m, targets)
         IN  [m |-> [m1 EXCEPT !.conflicts[v] = @ \cup T],
              pending |-> c.pending \cup
                        {s \in UNION {m1.notify[t] : t \in T} : m1.unresolved[s] # <<>>}]

\* __resolve_conflicts raising unless the clause expands to exactly one target
ResolveConflictsOneTarget(c, v, i) ==
    IF Len(ExpandOrGroup(db.deps[v][i].group)) # 1
    THEN [c EXCEPT !.m.err = "unexpected conflicts"]
    ELSE LET targets == ExpandOrGroup(db.deps[v][i].group)
             T == Range(targets)
             m1 == Touch(c.m, targets)
             own == [m1.conflicts EXCEPT ![v] = @ \cup T]
         IN  [m |-> [m1 EXCEPT !.conflicts =
                        [t \in DOMAIN own |-> IF t \in T THEN own[t] \cup {v} ELSE own[t]]],
              pending |-> c.pending \cup
                        {s \in UNION {m1.notify[t] : t \in T} : m1.unresolved[s] # <<>>}]

\* __resolve_conflicts raising when a target of the clause is already ranked
ResolveConflictsStrict(c, v, i) ==
    IF Len(db.deps[v][i].group) # 1 \/ AnyRanked(c.m, ExpandOrGroup(db.deps[v][i].group))
    THEN [c EXCEPT !.m.err = "unexpected conflicts"]
    ELSE LET targets == ExpandOrGroup(db.deps[v][i].group)
             T == Range(targets)
             m1 == Touch(c.m, targets)
             own == [m1.conflicts EXCEPT ![v] = @ \cup T]
         IN  [m |-> [m1 EXCEPT !.conflicts =
                        [t \in DOMAIN own |-> IF t \in T THEN own[t] \cup {v} ELSE own[t]]],
              pending |-> c.pending \cup
                        {s \in UNION {m1.notify[t] : t \in T} : m1.unresolved[s] # <<>>}]

\* __resolve_conflicts
ResolveConflicts(c, v, i) ==
    IF Len(db.deps[v][i].group) # 1
    THEN [c EXCEPT !.m.err = "unexpected conflicts"]
    ELSE LET targets == ExpandOrGroup(db.deps[v][i].group)
             T == Range(targets)
             m1 == Touch(c.m, targets)
             own == [m1.conflicts EXCEPT ![v] = @ \cup T]
         IN  [m |-> [m1 EXCEPT !.conflicts =
                        [t \in DOMAIN own |-> IF t \in T THEN own[t] \cup {v} ELSE own[t]]],
              pending |-> c.pending \cup
                        {s \in UNION {m1.notify[t] : t \in T} : m1.unresolved[s] # <<>>}]

\* __resolve_replaces
ResolveReplaces(c, v, i) ==
    IF Len(db.deps[v][i].group) # 1
    THEN [c EXCEPT !.m.err = "unexpected replaces"]
    ELSE LET targets == ExpandOrGroup(db.deps[v][i].group)
             m1 == Touch(c.m, targets)
         IN  [c EXCEPT !.m = [m1 EXCEPT !.replaced_by =
                [t \in DOMAIN @ |-> IF t \in Range(targets) THEN @[t] \cup {v} ELSE @[t]]]]

\* __resolve_ignore
ResolveIgnore(c, v, i) == c

\* self.__resolve[kind](version, or_group)
Resolve(c, v, i) ==
    LET kind == db.deps[v][i].kind
    IN  CASE kind \in {"Conflicts", "Breaks"}              -> ResolveConflicts(c, v, i)
          [] kind \in {"Depends", "PreDepends"}            -> ResolveDepends(c, v, i)
          [] kind = "Recommends"                           -> ResolveDepends(c, v, i)
          [] kind = "Replaces"                             ->
                IF c.m.without_inert THEN c ELSE ResolveReplaces(c, v, i)
          [] kind \in {"Enhances", "Obsoletes", "Suggests"} -> ResolveIgnore(c, v, i)

RECURSIVE ResolveAll(_, _, _)
\* rank_once, the loop over version.depends_list; an exception ends it
ResolveAll(c, v, i) ==
    IF i > Len(db.deps[v]) \/ c.m.err # NoError THEN c
    ELSE ResolveAll(Resolve(c, v, i), v, i + 1)

\* rank_once without the test `version.rank is None`
RankVersionAgain(c, v, hint) ==
    LET c1 == [c EXCEPT !.m.rank[v] = c.m.grank, !.m.hint[v] = hint]
        c2 == IF c.m.rank[v] # 0 THEN c1 ELSE ResolveAll(c1, v, 1)
    IN  IF c2.m.err # NoError THEN c2
        ELSE [c2 EXCEPT !.pending = @ \cup c2.m.notify[v]]

\* rank_once testing `version.rank is None` for the assignment only
RankVersionReexpand(c, v, hint) ==
    LET c1 == IF c.m.rank[v] # 0 THEN c
              ELSE [c EXCEPT !.m.rank[v] = c.m.grank, !.m.hint[v] = hint]
        c2 == ResolveAll(c1, v, 1)
    IN  IF c2.m.err # NoError THEN c2
        ELSE [c2 EXCEPT !.pending = @ \cup c2.m.notify[v]]

\* rank_once, the body of its first loop for one version
RankVersion(c, v, hint) ==
    IF c.m.rank[v] # 0 THEN c
    ELSE LET c1 == [c EXCEPT !.m.rank[v] = c.m.grank, !.m.hint[v] = hint]
             c2 == ResolveAll(c1, v, 1)
         IN  IF c2.m.err # NoError THEN c2
             ELSE [c2 EXCEPT !.pending = @ \cup c2.m.notify[v]]

RECURSIVE RankVersions(_, _, _)
RankVersions(c, versions, hint) ==
    IF versions = <<>> \/ c.m.err # NoError THEN c
    ELSE RankVersions(RankVersion(c, Head(versions), hint), Tail(versions), hint)

RECURSIVE DrainVersionUnregister(_, _, _, _)
\* the inner loop of rank_once taking version out of notify(t) when it drops the
\* last group of version.unresolved that has t among its targets
DrainVersionUnregister(m, v, i, result) ==
    IF i > Len(m.unresolved[v]) THEN [m |-> m, result |-> result]
    ELSE LET targets == ExpandOrGroup(GroupOf(v, m.unresolved[v][i]))
             m1 == Touch(m, targets)
             candidate == ResolveOnce(m1, targets, FALSE)
             left == RemoveAt(m1.unresolved[v], i)
             Live(t) == \E k \in DOMAIN left : t \in Range(ExpandOrGroup(GroupOf(v, left[k])))
             dropped == [m1 EXCEPT !.unresolved[v] = left,
                                   !.notify = [t \in DOMAIN @ |->
                                                  IF t \in Range(targets) /\ ~Live(t)
                                                  THEN @[t] \ {v} ELSE @[t]]]
         IN  IF AnyRanked(m1, targets) THEN DrainVersionUnregister(dropped, v, i, result)
             ELSE IF candidate # NoVersion
                  THEN DrainVersionUnregister(dropped, v, i, result \cup {candidate})
                  ELSE DrainVersionUnregister(m1, v, i + 1, result)

RECURSIVE DrainVersionRankedToo(_, _, _, _)
\* the inner loop of rank_once adding the candidate of a group to the next wave
\* also when a target of the group is already ranked
DrainVersionRankedToo(m, v, i, result) ==
    IF i > Len(m.unresolved[v]) THEN [m |-> m, result |-> result]
    ELSE LET targets == ExpandOrGroup(GroupOf(v, m.unresolved[v][i]))
             m1 == Touch(m, targets)
             candidate == ResolveOnce(m1, targets, FALSE)
             dropped == [m1 EXCEPT !.unresolved[v] = RemoveAt(@, i)]
         IN  IF candidate # NoVersion
             THEN DrainVersionRankedToo(dropped, v, i, result \cup {candidate})
             ELSE IF AnyRanked(m1, targets) THEN DrainVersionRankedToo(dropped, v, i, result)
             ELSE DrainVersionRankedToo(m1, v, i + 1, result)

RECURSIVE DrainVersion(_, _, _, _)
\* rank_once, the inner loop over version.unresolved of one popped version
DrainVersion(m, v, i, result) ==
    IF i > Len(m.unresolved[v]) THEN [m |-> m, result |-> result]
    ELSE LET targets == ExpandOrGroup(GroupOf(v, m.unresolved[v][i]))
             m1 == Touch(m, targets)
             candidate == ResolveOnce(m1, targets, FALSE)
             dropped == [m1 EXCEPT !.unresolved[v] = RemoveAt(@, i)]
         IN  IF AnyRanked(m1, targets) THEN DrainVersion(dropped, v, i, result)
             ELSE IF candidate # NoVersion
                  THEN DrainVersion(dropped, v, i, result \cup {candidate})
                  ELSE DrainVersion(m1, v, i + 1, result)

\* one iteration of `while self.__pending_depends`: pop any element
Pop(c, v) ==
    LET r == DrainVersion(c.m, v, 1, c.result)
    IN  [m |-> r.m, pending |-> c.pending \ {v}, result |-> r.result]

RECURSIVE Drain(_)
\* the drain of a wave, from a set of configurations [m, pending, result],
\* for every order in which set.pop may return the elements
Drain(cs) ==
    IF \A c \in cs : c.pending = {} THEN cs
    ELSE Drain(UNION {IF c.pending = {} THEN {c} ELSE {Pop(c, v) : v \in c.pending} : c \in cs})

\* Manager.rank_once on a (sorted) sequence of versions: the possible [m, result]
RankOnce(m, versions, hint) ==
    LET c0 == [m |-> [m EXCEPT !.grank = @ + 1], pending |-> Range(versions)]
        c1 == RankVersions(c0, versions, hint)
    IN  IF c1.m.err # NoError THEN {[m |-> c1.m, result |-> {}]}
        ELSE {[m |-> c.m, result |-> c.result] :
                c \in Drain({[m |-> c1.m, pending |-> c1.pending, result |-> {}]})}

\* sorted(versions, key = package name) of a set: a sort is stable, so versions
\* of equal name stay in the order the set enumerated them in
SortedByName(S) ==
    {p \in Perms(S) : \A i, j \in DOMAIN p :
        i < j => NameKey(PkgName(db, p[i])) <= NameKey(PkgName(db, p[j]))}

RECURSIVE InsertByName(_, _)
InsertByName(sorted, v) ==
    IF sorted = <<>> THEN <<v>>
    ELSE IF NameKey(PkgName(db, v)) < NameKey(PkgName(db, Head(sorted)))
         THEN <<v>> \o sorted
         ELSE <<Head(sorted)>> \o InsertByName(Tail(sorted), v)

RECURSIVE SortSeqByName(_)
\* sorted(...) of a sequence (a generator): stable
SortSeqByName(s) ==
    IF s = <<>> THEN <<>>
    ELSE InsertByName(SortSeqByName(SubSeq(s, 1, Len(s) - 1)), s[Len(s)])

RECURSIVE RankWavesKeepHint(_, _, _)
\* Manager.rank without `hint = None`: every wave ranks with the caller's hint
RankWavesKeepHint(m, versions, hint) ==
    UNION {IF o.m.err # NoError \/ o.result = {} THEN {o.m}
           ELSE UNION {RankWavesKeepHint(o.m, s, hint) : s \in SortedByName(o.result)} :
           o \in RankOnce(m, versions, hint)}

\* Manager.rank returning after its first wave, the result of the wave dropped
RankWavesOneWave(m, versions, hint) == {o.m : o \in RankOnce(m, versions, hint)}

RECURSIVE RankWaves(_, _, _)
\* Manager.rank from a wave already sorted: the Managers it may return
RankWaves(m, versions, hint) ==
    UNION {IF o.m.err # NoError \/ o.result = {} THEN {o.m}
           ELSE UNION {RankWaves(o.m, s, NoHint) : s \in SortedByName(o.result)} :
           o \in RankOnce(m, versions, hint)}

\* Manager.rank on a set of versions
Rank(m, versions, hint) ==
    IF versions = {} THEN {m}
    ELSE UNION {RankWaves(m, s, hint) : s \in SortedByName(versions)}

RECURSIVE DefaultVersionsRequiredOnly(_)
\* __find_default_versions with priorities = { PRI_REQUIRED }
DefaultVersionsRequiredOnly(ps) ==
    IF ps = <<>> THEN <<>>
    ELSE LET version == db.cand[Head(ps)]
         IN  (IF HasVersions(db, Head(ps))
                 /\ db.prio[version] = "required"
                 /\ db.arch[version] \notin db.foreign
              THEN <<version>> ELSE <<>>)
             \o DefaultVersionsRequiredOnly(Tail(ps))

RECURSIVE DefaultVersions(_)
\* Manager.__find_default_versions over self.__packages.values()
DefaultVersions(ps) ==
    IF ps = <<>> THEN <<>>
    ELSE LET version == db.cand[Head(ps)]
         IN  (IF HasVersions(db, Head(ps))
                 /\ db.prio[version] \in {"required", "important", "standard"}
                 /\ db.arch[version] \notin db.foreign
              THEN <<version>> ELSE <<>>)
             \o DefaultVersions(Tail(ps))

\* Manager.__init__: self.rank(self.__find_default_versions(), 'D'); a generator
\* is true in `while versions`, so the first wave runs even when it is empty
Construct == RankWaves(NewManager, SortSeqByName(DefaultVersions(db.pkgs)), "D")

\* rank_by_name taking the first provider of a package with several
RankByNameFirstProvider(m, package_name, hint) ==
    LET package == db.byname[package_name]
    IN  IF HasVersions(db, package)
        THEN Rank(Touch(m, <<db.cand[package]>>), {db.cand[package]}, hint)
        ELSE IF HasProvides(db, package)
             THEN Rank(Touch(m, <<db.provides[package][1]>>), {db.provides[package][1]}, hint)
             ELSE {[m EXCEPT !.err = "can not rank package without versions"]}

\* Manager.rank_by_name
RankByNameOf(m, package_name, hint) ==
    LET package == db.byname[package_name]
    IN  IF HasVersions(db, package)
        THEN Rank(Touch(m, <<db.cand[package]>>), {db.cand[package]}, hint)
        ELSE IF HasProvides(db, package) /\ Len(db.provides[package]) = 1
             THEN Rank(Touch(m, <<db.provides[package][1]>>), {db.provides[package][1]}, hint)
             ELSE {[m EXCEPT !.err = "can not rank package without versions"]}

\* rank_unresolved: self.rank({ candidate, }, 'C')
ForcedRank(m, v, entry, candidate) ==
    Rank([m EXCEPT !.forced = Append(@, [version |-> v, clause |-> entry.clause,
                                         candidate |-> candidate])],
         {candidate}, "C")

RECURSIVE ScanGroups(_, _, _, _, _)
\* rank_unresolved, the loop over list(version.unresolved): the possible [m, resolved]
ScanGroups(m, v, groups, i, resolved) ==
    IF i > Len(groups) THEN {[m |-> m, resolved |-> resolved]}
    ELSE LET targets == ExpandOrGroup(GroupOf(v, groups[i]))
             m1 == Touch(m, targets)
             candidate == ResolveOnce(m1, targets, TRUE)
         IN  IF ~AnyRanked(m1, targets) /\ candidate # NoVersion
             THEN UNION {IF m2.err # NoError THEN {[m |-> m2, resolved |-> TRUE]}
                         ELSE ScanGroups(m2, v, groups, i + 1, TRUE) :
                         m2 \in ForcedRank(m1, v, groups[i], candidate)}
             ELSE ScanGroups(m1, v, groups, i + 1, resolved)

RECURSIVE ScanVersions(_, _, _, _)
\* rank_unresolved, the loop over list(self.__versions.values())
ScanVersions(m, versions, i, resolved) ==
    IF i > Len(versions) THEN {[m |-> m, resolved |-> resolved]}
    ELSE IF m.rank[versions[i]] # 0 /\ m.unresolved[versions[i]] # <<>>
         THEN UNION {IF r.m.err # NoError THEN {r}
                     ELSE ScanVersions(r.m, versions, i + 1, r.resolved) :
                     r \in ScanGroups(m, versions[i], m.unresolved[versions[i]], 1, resolved)}
         ELSE ScanVersions(m, versions, i + 1, resolved)

\* rank_unresolved without `while resolved`: one pass over the versions
RankUnresolvedOnePass(m) == {r.m : r \in ScanVersions(m, m.versions, 1, FALSE)}

RECURSIVE RankUnresolvedOf(_)
\* Manager.rank_unresolved: the Managers it may return
RankUnresolvedOf(m) ==
    UNION {IF r.m.err # NoError \/ ~r.resolved THEN {r.m} ELSE RankUnresolvedOf(r.m) :
           r \in ScanVersions(m, m.versions, 1, FALSE)}

(***************************************************************************)
(* The program: a Manager is constructed on a database, then rank_by_name  *)
(* and rank_unresolved are called on it.  An exception ends the program.   *)
(***************************************************************************)
Unresolved == "rank_unresolved()"

Dump == "dump_unresolved()"

\* dump_unresolved is the last statement of the program
Dumped == calls # <<>> /\ calls[Len(calls)] = Dump

Running == mgr.err = NoError /\ ~Dumped /\ Len(calls) < MaxCalls

Init ==
    /\ db \in Databases
    /\ mgr \in Construct
    /\ twin \in Construct
    /\ calls = <<>>
    /\ resolver = NoResolver

\* manager.rank_by_name(package_name, 'W')
RankByName(package_name) ==
    /\ Running
    /\ mgr' \in RankByNameOf(mgr, package_name, "W")
    /\ twin' \in RankByNameOf(twin, package_name, "W")
    /\ calls' = Append(calls, package_name)
    /\ UNCHANGED <<db, resolver>>

\* manager.rank_unresolved()
RankUnresolved ==
    /\ Running
    /\ mgr' \in RankUnresolvedOf(mgr)
    /\ twin' \in RankUnresolvedOf(twin)
    /\ calls' = Append(calls, Unresolved)
    /\ UNCHANGED <<db, resolver>>

Next ==
    \/ \E package_name \in DOMAIN db.byname : RankByName(package_name)
    \/ RankUnresolved

Spec == Init /\ [][Next]_vars

(***************************************************************************)
(* Vocabulary of the properties.                                           *)
(***************************************************************************)
Ranked(v) == mgr.rank[v] # 0

Completed == mgr.err = NoError

DependsKinds == {"Depends", "PreDepends", "Recommends"}

ConflictsKinds == {"Conflicts", "Breaks"}

\* clause i of version v is still an entry of v.unresolved
Listed(v, i) == \E k \in DOMAIN mgr.unresolved[v] : mgr.unresolved[v][k].clause = i

Targets(v, i) == ExpandOrGroup(db.deps[v][i].group)

\* the last call made was rank_unresolved
AfterRankUnresolved == calls # <<>> /\ calls[Len(calls)] = Unresolved

\* the names passed to rank_by_name so far
Named == {calls[k] : k \in DOMAIN calls} \ {Unresolved}

\* v was a seed of rank_by_name through the single-provider path
ProviderSeed(v) ==
    \E n \in Named : ~HasVersions(db, db.byname[n]) /\ db.provides[db.byname[n]] = <<v>>

RECURSIVE IsSubSeq(_, _)
\* s is t with some elements deleted
IsSubSeq(s, t) ==
    IF s = <<>> THEN TRUE
    ELSE IF t = <<>> THEN FALSE
    ELSE IF Head(s) = Head(t) THEN IsSubSeq(Tail(s), Tail(t))
    ELSE IsSubSeq(s, Tail(t))

\* a clause of v of one of the kinds with a number of alternatives other than one
Malformed(v, kinds) ==
    \E i \in DOMAIN db.deps[v] : db.deps[v][i].kind \in kinds /\ Len(db.deps[v][i].group) # 1

\* x Depends on y alone (one alternative, one target)
DependsOnlyOn(x, y) ==
    \E i \in DOMAIN db.deps[x] : db.deps[x][i].kind = "Depends" /\ db.deps[x][i].group = <<(<<y>>)>>

\* x and y are candidate versions forming a 2-cycle of single-alternative Depends
Cycle(x, y) ==
    /\ x # y
    /\ IsCandidate(db, x) /\ IsCandidate(db, y)
    /\ DependsOnlyOn(x, y) /\ DependsOnlyOn(y, x)

(***************************************************************************)
(* C1  Dependency closure of the expected set.  While no exception has     *)
(* ended the program (so after construction, after every rank_by_name and  *)
(* after a final rank_unresolved), every Depends/PreDepends/Recommends     *)
(* group of a ranked version has a ranked target or is still listed in the *)
(* version's unresolved list.                                              *)
(***************************************************************************)
C1_DependencyClosure ==
    Completed =>
        \A v \in Versions(db) : Ranked(v) =>
            \A i \in DOMAIN db.deps[v] : db.deps[v][i].kind \in DependsKinds =>
                AnyRanked(mgr, Targets(v, i)) \/ Listed(v, i)

\* after a rank_unresolved that made a forced pick: one group satisfied by a
\* ranked target and dropped, another one still listed
C1_Witness ==
    /\ Completed /\ AfterRankUnresolved /\ mgr.forced # <<>>
    /\ \E v \in Versions(db) : Ranked(v) /\
          \E i, j \in DOMAIN db.deps[v] :
              /\ db.deps[v][i].kind \in DependsKinds /\ db.deps[v][j].kind \in DependsKinds
              /\ AnyRanked(mgr, Targets(v, i)) /\ ~Listed(v, i)
              /\ Listed(v, j) /\ ~AnyRanked(mgr, Targets(v, j))

(***************************************************************************)
(* C2  Monotonicity.  No call changes the rank or the hint of a version    *)
(* that is ranked, also when the call names the version again as a seed.   *)
(***************************************************************************)
C2_RankMonotone ==
    [][\A v \in Versions(db) : mgr.rank[v] # 0 =>
            mgr'.rank[v] = mgr.rank[v] /\ mgr'.hint[v] = mgr.hint[v]]_vars

\* a version ranked with hint D by the constructor was named by rank_by_name(.., 'W')
C2_Witness ==
    \E n \in Named : HasVersions(db, db.byname[n])
        /\ mgr.rank[db.cand[db.byname[n]]] = 1 /\ mgr.hint[db.cand[db.byname[n]]] = "D"

(***************************************************************************)
(* C3  Single rank per package.  As claimed: in every reachable state at   *)
(* most one version of a package carries a rank.                           *)
(***************************************************************************)
C3_SingleRankPerPackage ==
    \A p \in Range(db.pkgs) : Cardinality({v \in Range(db.vers[p]) : Ranked(v)}) <= 1

(* C3 as amended: at most one version of a package carries a rank, apart   *)
(* from non-candidate versions named through a virtual package they alone  *)
(* provide (the single-provider path of rank_by_name).                     *)
C3_SingleRankBesidesProviderSeeds ==
    \A p \in Range(db.pkgs) :
        Cardinality({v \in Range(db.vers[p]) : Ranked(v) /\ ~ProviderSeed(v)}) <= 1

\* a package with two ranked versions
C3_Witness ==
    \E p \in Range(db.pkgs) : Cardinality({v \in Range(db.vers[p]) : Ranked(v)}) = 2

C5_UnresolvedHasNoAlternative ==
    (Completed /\ AfterRankUnresolved) =>
        \A v \in Versions(db) : Ranked(v) =>
            \A k \in DOMAIN mgr.unresolved[v] :
                LET targets == ExpandOrGroup(GroupOf(v, mgr.unresolved[v][k]))
                IN  /\ ~AnyRanked(mgr, targets)
                    /\ \A t \in Range(targets) : ~IsCandidate(db, t)

\* rank_unresolved has returned and a ranked version still lists a group with targets
C5_Witness ==
    /\ Completed /\ AfterRankUnresolved
    /\ \E v \in Versions(db) : Ranked(v) /\
          \E k \in DOMAIN mgr.unresolved[v] :
              ExpandOrGroup(GroupOf(v, mgr.unresolved[v][k])) # <<>>

(***************************************************************************)
(* C6  Determinism.  As claimed: two executions on the same database and   *)
(* the same sequence of calls agree on the rank and the hint of every      *)
(* version, whatever order a set was enumerated in before the name sort    *)
(* and whatever order the pending set was popped in.                       *)
(***************************************************************************)
C6_Deterministic == mgr.rank = twin.rank /\ mgr.hint = twin.hint

(***************************************************************************)
(* C7  Conflict symmetry.  A is in conflicts(B) exactly when B is in       *)
(* conflicts(A), in every state.                                           *)
(***************************************************************************)
C7_ConflictSymmetry ==
    \A A, B \in Versions(db) : A \in mgr.conflicts[B] <=> B \in mgr.conflicts[A]

\* a conflict edge between two different versions has been recorded
C7_Witness ==
    \E A, B \in Versions(db) : A # B /\ A \in mgr.conflicts[B] /\ Ranked(A)

(***************************************************************************)
(* C8  Populate once.  For a version that is ranked, no call appends a     *)
(* group to its unresolved list (the list only loses entries), none adds   *)
(* it to a notify or replaced_by set, and none adds a conflict edge        *)
(* between it and another ranked version; no clause is listed twice.       *)
(***************************************************************************)
C8_PopulateOnce ==
    [][\A v \in Versions(db) :
          /\ \A j, k \in DOMAIN mgr'.unresolved[v] :
                j # k => mgr'.unresolved[v][j].clause # mgr'.unresolved[v][k].clause
          /\ mgr.rank[v] # 0 =>
                /\ IsSubSeq(mgr'.unresolved[v], mgr.unresolved[v])
                /\ \A t \in Versions(db) :
                      /\ v \in mgr'.notify[t] => v \in mgr.notify[t]
                      /\ v \in mgr'.replaced_by[t] => v \in mgr.replaced_by[t]
                      /\ (t \in mgr'.conflicts[v] /\ mgr.rank[t] # 0) => t \in mgr.conflicts[v]]_vars

\* a version the constructor ranked, with groups still listed, was named as a seed
C8_Witness ==
    \E n \in Named : HasVersions(db, db.byname[n])
        /\ mgr.hint[db.cand[db.byname[n]]] = "D"
        /\ mgr.unresolved[db.cand[db.byname[n]]] # <<>>
        /\ \E t \in Versions(db) : db.cand[db.byname[n]] \in mgr.notify[t]

(***************************************************************************)
(* C9  Escalation fixpoint.  rank_unresolved called right after a          *)
(* rank_unresolved that returned leaves the whole Manager as it is: no     *)
(* forced pick, no change of any rank, hint, unresolved list, conflict or  *)
(* notify set.                                                             *)
(***************************************************************************)
C9_EscalationFixpoint ==
    [][(AfterRankUnresolved /\ calls' = Append(calls, Unresolved)) => mgr' = mgr]_vars

\* rank_unresolved was called twice in a row, and escalation had made two picks
C9_Witness ==
    /\ Completed /\ Len(mgr.forced) >= 2
    /\ \E k \in DOMAIN calls : k > 1 /\ calls[k] = Unresolved /\ calls[k - 1] = Unresolved

(***************************************************************************)
(* C10  Scenario D.  As claimed: of a 2-cycle of single-alternative        *)
(* Depends, both versions ranked, the one whose package name is first      *)
(* carries the escalation hint and the other was ranked in the following   *)
(* wave.                                                                   *)
(***************************************************************************)
C10_CycleNeedsEscalation ==
    \A x, y \in Versions(db) :
        (Completed /\ Cycle(x, y) /\ Ranked(x) /\ Ranked(y)
            /\ NameKey(PkgName(db, x)) < NameKey(PkgName(db, y)))
        => (mgr.hint[x] = "C" /\ mgr.rank[y] = mgr.rank[x] + 1)

(* C10 as amended: automatic resolution does not stall on such a cycle.    *)
(* Once a rank call has returned, either version being ranked, the other   *)
(* is ranked too, at most one wave later, and if one wave later then       *)
(* without a hint; rank_unresolved makes no forced pick for a group of the *)
(* cycle.                                                                  *)
C10_CycleResolvesAutomatically ==
    \A x, y \in Versions(db) :
        (Completed /\ Cycle(x, y) /\ Ranked(x)) =>
            /\ Ranked(y)
            /\ mgr.rank[y] <= mgr.rank[x] + 1
            /\ mgr.rank[y] = mgr.rank[x] + 1 => mgr.hint[y] = NoHint
            /\ \A k \in DOMAIN mgr.forced :
                  mgr.forced[k].version = x => Targets(x, mgr.forced[k].clause) # <<y>>

\* a cycle one version of which was a wishlist seed, the other ranked in the next wave
C10_Witness ==
    \E x, y \in Versions(db) :
        /\ Completed /\ Cycle(x, y)
        /\ mgr.hint[x] = "W" /\ mgr.rank[y] = mgr.rank[x] + 1 /\ mgr.hint[y] = NoHint
        /\ AfterRankUnresolved

\* clause i of app is a Depends group of two alternatives la | lb, one target each
TwoAlternatives(app, i, la, lb) ==
    /\ i \in DOMAIN db.deps[app]
    /\ db.deps[app][i].kind = "Depends"
    /\ db.deps[app][i].group = <<(<<la>>), (<<lb>>)>>
    /\ la # lb /\ la # app /\ lb # app

\* clause i is the only clause of app that a handler other than __resolve_ignore gets
OnlyClause(app, i) ==
    \A j \in DOMAIN db.deps[app] : j # i => db.deps[app][j].kind \in {"Suggests", "Enhances", "Obsoletes"}

\* this step is a rank_by_name that ranks app as wishlist seed while la and lb
\* are unranked, la being its package's candidate with an empty conflict set
ScenarioB(app, i, la, lb) ==
    /\ TwoAlternatives(app, i, la, lb) /\ OnlyClause(app, i)
    /\ mgr.rank[app] = 0 /\ mgr.rank[la] = 0 /\ mgr.rank[lb] = 0
    /\ IsCandidate(db, la) /\ mgr.conflicts[la] = {}
    /\ mgr'.err = NoError /\ mgr'.rank[app] # 0 /\ mgr'.hint[app] = "W"

(***************************************************************************)
(* C11  Scenario B.  As claimed: a wishlist seed app with the Depends      *)
(* group (lib-a | lib-b), lib-a being its package's candidate with an      *)
(* empty conflict set: the call ranks lib-a in the generation after app's, *)
(* without a hint.                                                         *)
(***************************************************************************)
C11_PicksFirstAlternative ==
    [][\A app, la, lb \in Versions(db) : \A i \in DOMAIN db.deps[app] :
          ScenarioB(app, i, la, lb) =>
              mgr'.rank[la] = mgr'.rank[app] + 1 /\ mgr'.hint[la] = NoHint]_vars

(* C11 as amended: lib-a is picked in app's wave exactly when lib-b is not *)
(* a conflict-free candidate too (lib-b is not its package's candidate, or *)
(* has a conflict).  Then lib-a is ranked in the next generation without a *)
(* hint and lib-b is not ranked in that generation.  When lib-b is also a  *)
(* conflict-free candidate the unforced rule decides nothing: the call     *)
(* ranks neither, and the group stays in app's unresolved list.            *)
C11_PicksOnlyUniqueAlternative ==
    [][\A app, la, lb \in Versions(db) : \A i \in DOMAIN db.deps[app] :
          ScenarioB(app, i, la, lb) =>
              IF IsCandidate(db, lb) /\ mgr.conflicts[lb] = {}
              THEN /\ mgr'.rank[la] = 0 /\ mgr'.rank[lb] = 0
                   /\ \E k \in DOMAIN mgr'.unresolved[app] : mgr'.unresolved[app][k].clause = i
              ELSE /\ mgr'.rank[la] = mgr'.rank[app] + 1 /\ mgr'.hint[la] = NoHint
                   /\ mgr'.rank[lb] # mgr'.rank[app] + 1]_vars

\* a wishlist seed whose group (lib-a | lib-b) was decided automatically: lib-b is a
\* candidate with a conflict, lib-a was ranked in the next generation, lib-b not at all
C11_Witness ==
    \E app, la, lb \in Versions(db) : \E i \in DOMAIN db.deps[app] :
        /\ TwoAlternatives(app, i, la, lb) /\ OnlyClause(app, i)
        /\ Completed /\ mgr.hint[app] = "W"
        /\ IsCandidate(db, la) /\ mgr.conflicts[la] = {}
        /\ IsCandidate(db, lb) /\ mgr.conflicts[lb] # {}
        /\ mgr.rank[la] = mgr.rank[app] + 1 /\ mgr.hint[la] = NoHint
        /\ mgr.rank[lb] = 0

(***************************************************************************)
(* dump_unresolved: the report.  A printed line is kept as its directive   *)
(* and the package it names; the label of the package and the indented     *)
(* dependency-context lines (__dump_dependencies) are output only and      *)
(* change nothing the Manager reads later.                                 *)
(***************************************************************************)
Line(tag, package) == [tag |-> tag, pkg |-> package]

RECURSIVE UnresolvedLines(_, _)
\* dump_unresolved, first loop: one UNRESOLVED line for every entry of
\* version.unresolved of a ranked version, in the order of __versions
UnresolvedLines(m, versions) ==
    IF versions = <<>> THEN <<>>
    ELSE LET version == Head(versions)
         IN  (IF m.rank[version] # 0
              THEN [k \in DOMAIN m.unresolved[version] |-> Line("UNRESOLVED", db.parent[version])]
              ELSE <<>>)
             \o UnresolvedLines(m, Tail(versions))

\* the propagation loop overwriting package.rank instead of raising
PropagateRankLastWins(m, versions) ==
    LET RECURSIVE Over(_, _)
        Over(n, vs) ==
            IF vs = <<>> THEN n
            ELSE LET version == Head(vs)
                     package == db.parent[version]
                 IN  IF n.rank[version] = 0 THEN Over(n, Tail(vs))
                     ELSE Over([n EXCEPT !.prank[package] = n.rank[version],
                                         !.phint[package] = n.hint[version]], Tail(vs))
    IN  Over(m, versions)

RECURSIVE PropagateRank(_, _)
\* dump_unresolved, second loop: rank and hint from Version to Package
PropagateRank(m, versions) ==
    IF versions = <<>> THEN m
    ELSE LET version == Head(versions)
             package == db.parent[version]
         IN  IF m.rank[version] = 0 THEN PropagateRank(m, Tail(versions))
             ELSE IF m.prank[package] = 0
             THEN PropagateRank([m EXCEPT !.prank[package] = m.rank[version],
                                          !.phint[package] = m.hint[version]], Tail(versions))
             ELSE [m EXCEPT !.err = "unexpected ranked versions"]

\* sorted(removes) with the package name as the only key
SortRemovesByName(removes) ==
    LET RECURSIVE Ins(_, _)
        Ins(sorted, t) ==
            IF sorted = <<>> THEN <<t>>
            ELSE IF NameKey(db.name[t.pkg]) < NameKey(db.name[Head(sorted).pkg])
                 THEN <<t>> \o sorted
                 ELSE <<Head(sorted)>> \o Ins(Tail(sorted), t)
        RECURSIVE Sort(_)
        Sort(r) == IF r = <<>> THEN <<>> ELSE Ins(Sort(SubSeq(r, 1, Len(r) - 1)), r[Len(r)])
    IN  Sort(removes)

\* (score, name) < (score, name) as Python compares the key tuples; False < True
RemoveKeyLess(t, u) ==
    \/ ~t.score /\ u.score
    \/ t.score = u.score /\ NameKey(db.name[t.pkg]) < NameKey(db.name[u.pkg])

RECURSIVE InsertRemove(_, _)
\* insertion behind the elements that are not greater: the sort is stable
InsertRemove(sorted, t) ==
    IF sorted = <<>> THEN <<t>>
    ELSE IF RemoveKeyLess(t, Head(sorted)) THEN <<t>> \o sorted
    ELSE <<Head(sorted)>> \o InsertRemove(Tail(sorted), t)

RECURSIVE SortRemoves(_)
\* sorted(removes, key=lambda t: (t[1], t[0].name))
SortRemoves(removes) ==
    IF removes = <<>> THEN <<>>
    ELSE InsertRemove(SortRemoves(SubSeq(removes, 1, Len(removes) - 1)), removes[Len(removes)])

RECURSIVE Classify(_, _, _)
\* dump_unresolved, the loop over self.__packages.values() and the REMOVE loop
Classify(m, packages, removes) ==
    IF packages = <<>>
    THEN [m EXCEPT !.out = @ \o [k \in DOMAIN removes |-> Line("REMOVE", SortRemoves(removes)[k].pkg)]]
    ELSE LET package == Head(packages)
             rest == Tail(packages)
         IN  IF m.prank[package] = 0
             THEN IF db.current_state[package] # "NotInstalled"
                  THEN Classify(m, rest, Append(removes, [pkg |-> package,
                                                          score |-> db.auto_installed[package]]))
                  ELSE Classify(m, rest, removes)
             ELSE IF db.current_state[package] # "Installed"
                     /\ db.selected_state[package] # "Install"
             THEN Classify([m EXCEPT !.out = Append(@, Line("INSTALL", package))], rest, removes)
             ELSE IF db.current_ver[package] = NoVersion
             THEN [m EXCEPT !.err = "AttributeError"]   \* package.current_ver.id of None
             ELSE IF db.current_ver[package] # db.cand[package]
             THEN Classify([m EXCEPT !.out = Append(@, Line("UPGRADE", package))], rest, removes)
             ELSE IF db.auto_installed[package] = (m.phint[package] = "W")
             THEN Classify([m EXCEPT !.out = Append(@, Line("WISHLIST", package))], rest, removes)
             ELSE Classify(m, rest, removes)

\* Manager.dump_unresolved; self.__packages holds every package of the cache, in
\* the order of find_packages()
DumpUnresolvedOf(m) ==
    LET m1 == [m EXCEPT !.out = @ \o UnresolvedLines(m, m.versions)]
        m2 == PropagateRank(m1, m1.versions)
    IN  IF m2.err # NoError THEN m2 ELSE Classify(m2, db.pkgs, <<>>)

(***************************************************************************)
(* The program as __main__ runs it, on a system with packages installed:   *)
(* the wishlist names one by one, rank_unresolved once, dump_unresolved.   *)
(* The databases are those with at most one generated clause and the       *)
(* multi-architecture one, each in the fresh state (nothing installed)     *)
(* and in the install states below.                                        *)
(***************************************************************************)
Profile(cs, ss, ver, auto) ==
    [current_state |-> cs, selected_state |-> ss, version |-> ver, auto |-> auto]

\* what dpkg and apt can report of a package: not installed, installed by hand or
\* automatically at the candidate version, installed at another version, removed
\* with its configuration files left, selected for installation but not installed,
\* installed and selected for removal
InstallProfiles == <<
    Profile("NotInstalled", "Unknown",   "none",      FALSE),
    Profile("Installed",    "Install",   "candidate", FALSE),
    Profile("Installed",    "Install",   "candidate", TRUE),
    Profile("Installed",    "Install",   "last",      FALSE),
    Profile("ConfigFiles",  "DeInstall", "none",      FALSE),
    Profile("NotInstalled", "Install",   "none",      FALSE),
    Profile("Installed",    "DeInstall", "candidate", TRUE) >>

\* the profile of package p of database d in install state number shift: the
\* packages take the profiles in turn, a package without versions is not installed
ProfileOf(d, p, shift) ==
    IF ~HasVersions(d, p) THEN InstallProfiles[1]
    ELSE LET k == CHOOSE i \in DOMAIN d.pkgs : d.pkgs[i] = p
         IN  InstallProfiles[((k + shift) % Len(InstallProfiles)) + 1]

WithInstallState(d, shift) ==
    [d EXCEPT
        !.current_state  = [p \in Range(d.pkgs) |-> ProfileOf(d, p, shift).current_state],
        !.selected_state = [p \in Range(d.pkgs) |-> ProfileOf(d, p, shift).selected_state],
        !.auto_installed = [p \in Range(d.pkgs) |-> ProfileOf(d, p, shift).auto],
        !.current_ver    = [p \in Range(d.pkgs) |->
                              CASE ProfileOf(d, p, shift).version = "none" -> NoVersion
                                [] ProfileOf(d, p, shift).version = "last" -> d.vers[p][Len(d.vers[p])]
                                [] OTHER -> d.cand[p]]]

MainDatabases ==
    LET fresh == {GenDb(c) : c \in {c \in ClauseChoices : Cardinality(c) <= 1}} \cup {ArchDb}
    IN  fresh \cup {WithInstallState(d, shift) : d \in fresh, shift \in 1..Len(InstallProfiles)}

MainInit ==
    /\ db \in MainDatabases
    /\ mgr \in Construct
    /\ twin \in Construct
    /\ calls = <<>>
    /\ resolver = NoResolver

\* for package_name in wishlist: manager.rank_by_name(package_name, 'W')
Wish(package_name) ==
    /\ Unresolved \notin Range(calls)
    /\ Len(calls) < MaxCalls - 1
    /\ RankByName(package_name)

\* manager.rank_unresolved(), once, after the wishlist
Escalate ==
    /\ Unresolved \notin Range(calls)
    /\ RankUnresolved

\* manager.dump_unresolved()
DumpUnresolved ==
    /\ mgr.err = NoError
    /\ calls # <<>> /\ calls[Len(calls)] = Unresolved
    /\ mgr' = DumpUnresolvedOf(mgr)
    /\ twin' = DumpUnresolvedOf(twin)
    /\ calls' = Append(calls, Dump)
    /\ UNCHANGED <<db, resolver>>

MainNext ==
    \/ \E package_name \in DOMAIN db.byname : Wish(package_name)
    \/ Escalate
    \/ DumpUnresolved

MainSpec == MainInit /\ [][MainNext]_vars

(***************************************************************************)
(* Vocabulary of the properties of the report.                             *)
(***************************************************************************)
\* the directives other than UNRESOLVED printed for a package
Directives(package) ==
    {mgr.out[k].tag : k \in {j \in DOMAIN mgr.out :
                                mgr.out[j].pkg = package /\ mgr.out[j].tag # "UNRESOLVED"}}

\* dump_unresolved was called and returned
Reported == Dumped /\ Completed

\* candidate version of a package of priority Required, Important or Standard on
\* a non-foreign architecture
BaseVersion(v) ==
    /\ IsCandidate(db, v)
    /\ db.prio[v] \in {"required", "important", "standard"}
    /\ db.arch[v] \notin db.foreign

\* clause i of base version b is a Depends group with the one alternative and
\* the one target t, and t is not a base version
NeededByBase(b, i, t) ==
    /\ BaseVersion(b)
    /\ db.deps[b][i].kind = "Depends" /\ db.deps[b][i].group = <<(<<t>>)>>
    /\ ~BaseVersion(t)

NotInstalled(package) == db.current_state[package] = "NotInstalled"

\* the first test of the classification: neither installed nor selected for install
InstallWanted(package) ==
    db.current_state[package] # "Installed" /\ db.selected_state[package] # "Install"

ConflictsClause(v, i) == i \in DOMAIN db.deps[v] /\ db.deps[v][i].kind \in ConflictsKinds

\* a well-formed Conflicts/Breaks clause of a ranked version joins x and y
EdgeDeclared(x, y) ==
    \E i \in DOMAIN db.deps[x] :
        /\ ConflictsClause(x, i) /\ Len(db.deps[x][i].group) = 1
        /\ mgr.rank[x] # 0 /\ y \in Range(Targets(x, i))

(***************************************************************************)
(* C13  As claimed: a ranked version carries no Conflicts or Breaks clause *)
(* that expands to more than one target unless ranking it has aborted with *)
(* 'unexpected conflicts', and then none of the clause's targets is in its *)
(* conflict set.                                                           *)
(***************************************************************************)
C13_MultiTargetConflictsFatal ==
    \A v \in Versions(db) : \A i \in DOMAIN db.deps[v] :
        (Ranked(v) /\ ConflictsClause(v, i) /\ Len(Targets(v, i)) > 1) =>
            /\ mgr.err = "unexpected conflicts"
            /\ \A t \in Range(Targets(v, i)) : t \notin mgr.conflicts[v]

(* C13 as amended: what is fatal is a Conflicts or Breaks clause with a    *)
(* number of alternatives other than one.  Ranking a version with such a   *)
(* clause aborts and records no edge for the clause.  A clause of one      *)
(* alternative is never an error, however many targets it expands to (a    *)
(* virtual package with several providers): when the call returns, the     *)
(* version and every target are in each other's conflict set.              *)
C13_MultiAlternativeConflictsFatal ==
    /\ \A v \in Versions(db) : \A i \in DOMAIN db.deps[v] :
          (Ranked(v) /\ ConflictsClause(v, i)) =>
              IF Len(db.deps[v][i].group) # 1
              THEN /\ ~Completed
                   /\ \A t \in Range(Targets(v, i)) :
                         t \in mgr.conflicts[v] => EdgeDeclared(v, t) \/ EdgeDeclared(t, v)
              ELSE Completed => \A t \in Range(Targets(v, i)) :
                                   t \in mgr.conflicts[v] /\ v \in mgr.conflicts[t]
    /\ mgr.err = "unexpected conflicts" =>
          \E v \in Versions(db) : \E i \in DOMAIN db.deps[v] :
              Ranked(v) /\ ConflictsClause(v, i) /\ Len(db.deps[v][i].group) # 1

\* a ranked version whose one-alternative Breaks clause expands to two targets, both
\* recorded, and nothing aborted
C13_Witness ==
    /\ Completed
    /\ \E v \in Versions(db) : \E i \in DOMAIN db.deps[v] :
          /\ Ranked(v) /\ ConflictsClause(v, i)
          /\ Len(db.deps[v][i].group) = 1 /\ Len(Targets(v, i)) = 2
          /\ \A t \in Range(Targets(v, i)) : v \in mgr.conflicts[t]

\* some version of the package is ranked
HasRankedVersion(package) == \E v \in Range(db.vers[package]) : Ranked(v)

\* the positions of the lines printed for a package with a directive
LinesOf(package, tag) ==
    {k \in DOMAIN mgr.out : mgr.out[k].pkg = package /\ mgr.out[k].tag = tag}

(***************************************************************************)
(* C14  Scenario E and REMOVE ordering.  When dump_unresolved returns: a   *)
(* package is classified REMOVE exactly when it has no ranked version and  *)
(* its current state is not NotInstalled, once, and with no other          *)
(* directive; no other line follows a REMOVE line; and the REMOVE lines    *)
(* are in the order of (auto-installed flag, package name), the packages   *)
(* not automatically installed first.                                      *)
(***************************************************************************)
C14_RemoveOrphans ==
    Reported =>
        /\ \A package \in Range(db.pkgs) :
              IF ~HasRankedVersion(package) /\ ~NotInstalled(package)
              THEN Directives(package) = {"REMOVE"} /\ Cardinality(LinesOf(package, "REMOVE")) = 1
              ELSE "REMOVE" \notin Directives(package)
        /\ \A j, k \in DOMAIN mgr.out :
              (j < k /\ mgr.out[j].tag = "REMOVE") =>
                  /\ mgr.out[k].tag = "REMOVE"
                  /\ db.auto_installed[mgr.out[j].pkg] => db.auto_installed[mgr.out[k].pkg]
                  /\ db.auto_installed[mgr.out[j].pkg] = db.auto_installed[mgr.out[k].pkg]
                        => NameKey(db.name[mgr.out[j].pkg]) <= NameKey(db.name[mgr.out[k].pkg])

\* a report with two REMOVE lines after an INSTALL line: first a package installed by
\* hand, then an automatically installed one whose name sorts before the first's
C14_Witness ==
    /\ Reported
    /\ \E i, j, k \in DOMAIN mgr.out :
          /\ i < j /\ j < k
          /\ mgr.out[i].tag = "INSTALL" /\ mgr.out[j].tag = "REMOVE" /\ mgr.out[k].tag = "REMOVE"
          /\ ~db.auto_installed[mgr.out[j].pkg] /\ db.auto_installed[mgr.out[k].pkg]
          /\ NameKey(db.name[mgr.out[k].pkg]) < NameKey(db.name[mgr.out[j].pkg])

\* the hint of the ranked version of a package that has one
HintOf(package) ==
    LET v == CHOOSE v \in Range(db.vers[package]) : Ranked(v) IN mgr.hint[v]

\* what the classification as claimed gives a package
Classified(package) ==
    /\ Cardinality({k \in DOMAIN mgr.out :
                       mgr.out[k].pkg = package /\ mgr.out[k].tag # "UNRESOLVED"}) <= 1
    /\ (HasRankedVersion(package) /\ InstallWanted(package))
          => Directives(package) = {"INSTALL"}
    /\ (HasRankedVersion(package) /\ db.current_state[package] = "Installed"
           /\ db.current_ver[package] # db.cand[package])
          => Directives(package) = {"UPGRADE"}
    /\ "WISHLIST" \in Directives(package)
          => /\ HasRankedVersion(package) /\ ~InstallWanted(package)
             /\ db.current_ver[package] = db.cand[package]
             /\ db.auto_installed[package] = (HintOf(package) = "W")
    /\ (~HasRankedVersion(package) /\ NotInstalled(package)) => Directives(package) = {}

(***************************************************************************)
(* C15  Classification of ranked packages.  As claimed: once               *)
(* dump_unresolved has run on a state in which no package has two ranked   *)
(* versions, every package has at most one directive; a ranked package     *)
(* that is neither installed nor selected for install has INSTALL, a       *)
(* ranked installed package whose installed version is not the candidate   *)
(* has UPGRADE, WISHLIST goes only to a ranked package installed at the    *)
(* candidate version whose auto-installed flag equals (hint = W), and an   *)
(* unranked package that is not installed has none.                        *)
(***************************************************************************)
C15_Classification ==
    (Dumped /\ mgr.err # "unexpected ranked versions") =>
        \A package \in Range(db.pkgs) : Classified(package)

\* the ranked versions of a package
RankedVersions(package) == {v \in Range(db.vers[package]) : Ranked(v)}

(***************************************************************************)
(* C16  Rank propagation Version -> Package.  dump_unresolved raises       *)
(* 'unexpected ranked versions' if and only if some package has two or     *)
(* more ranked versions; otherwise every package with a ranked version has *)
(* that version's rank and hint, and every other package has none.         *)
(***************************************************************************)
C16_RankPropagation ==
    Dumped =>
        /\ mgr.err = "unexpected ranked versions"
              <=> \E package \in Range(db.pkgs) : Cardinality(RankedVersions(package)) >= 2
        /\ mgr.err # "unexpected ranked versions" =>
              \A package \in Range(db.pkgs) :
                  IF RankedVersions(package) = {}
                  THEN mgr.prank[package] = 0 /\ mgr.phint[package] = NoHint
                  ELSE \A v \in RankedVersions(package) :
                          mgr.prank[package] = mgr.rank[v] /\ mgr.phint[package] = mgr.hint[v]

\* dump_unresolved has raised on a package with two ranked versions
C16_Witness ==
    /\ Dumped /\ mgr.err = "unexpected ranked versions"
    /\ \E package \in Range(db.pkgs) : Cardinality(RankedVersions(package)) = 2

\* this step is the call rank_by_name(package_name, 'W')
CallsRankByName(package_name) ==
    package_name # Unresolved /\ package_name # Dump /\ calls' = Append(calls, package_name)

\* version seed is ranked by the call: as a seed of this call if it was unranked
SeededBy(seed) ==
    /\ mgr'.rank[seed] # 0
    /\ mgr.rank[seed] = 0 => mgr'.rank[seed] = mgr.grank + 1 /\ mgr'.hint[seed] = "W"

(***************************************************************************)
(* C17  rank_by_name.  On a name whose package has versions the call seeds *)
(* the package's candidate version; on a package without versions and with *)
(* exactly one provider it seeds the providing version; otherwise it       *)
(* raises 'can not rank package without versions' and nothing else in the  *)
(* Manager changes: no version is ranked, the generation counter stays.    *)
(***************************************************************************)
C17_RankByName ==
    [][\A package_name \in DOMAIN db.byname : CallsRankByName(package_name) =>
          LET package == db.byname[package_name]
          IN  IF HasVersions(db, package) THEN SeededBy(db.cand[package])
              ELSE IF Len(db.provides[package]) = 1 THEN SeededBy(db.provides[package][1])
              ELSE /\ mgr'.err = "can not rank package without versions"
                   /\ [mgr' EXCEPT !.err = mgr.err] = mgr]_vars

\* the last call named a package without versions that has two providers, and raised
C17_Witness ==
    /\ calls # <<>> /\ calls[Len(calls)] \in DOMAIN db.byname
    /\ ~HasVersions(db, db.byname[calls[Len(calls)]])
    /\ Len(db.provides[db.byname[calls[Len(calls)]]]) = 2
    /\ mgr.err = "can not rank package without versions"

\* the lists of at most two different versions: the inputs of the pick rule
TargetLists ==
    {<<>>} \cup {<<x>> : x \in Versions(db)}
           \cup {<<xy[1], xy[2]>> : xy \in {z \in Versions(db) \X Versions(db) : z[1] # z[2]}}

\* C: the targets that are their package's candidate version
CandidateSet(T) == {t \in Range(T) : IsCandidate(db, t)}

\* P: the members of C with an empty conflict set
PreferredSet(T) == {t \in CandidateSet(T) : mgr.conflicts[t] = {}}

\* the decision of the unforced rule as stated: the unique element of P, else the
\* unique element of C, else none
UnforcedPick(T) ==
    IF Cardinality(PreferredSet(T)) = 1 THEN CHOOSE t \in PreferredSet(T) : TRUE
    ELSE IF Cardinality(CandidateSet(T)) = 1 THEN CHOOSE t \in CandidateSet(T) : TRUE
    ELSE NoVersion

\* this step ranks seed v, whose only group i has a target that was ranked before
SeedWithRankedTarget(v, i) ==
    /\ mgr.rank[v] = 0 /\ mgr'.rank[v] # 0 /\ mgr'.hint[v] = "W"
    /\ db.deps[v][i].kind \in DependsKinds /\ OnlyClause(v, i)
    /\ AnyRanked(mgr, Targets(v, i))

(***************************************************************************)
(* C18  Unforced pick rule.  In every reachable state and for every list   *)
(* of targets T, __resolve_once(T, False) is the unique element of P when  *)
(* |P| = 1, else the unique element of C when |C| = 1, else no decision.   *)
(* rank_once uses the decision only for a group none of whose targets is   *)
(* ranked: ranking a seed whose one group has a ranked target drops the    *)
(* group and ranks nothing else.                                           *)
(***************************************************************************)
C18_UnforcedPickRule ==
    /\ [](\A T \in TargetLists : ResolveOnce(mgr, T, FALSE) = UnforcedPick(T))
    /\ [][\A v \in Versions(db) : \A i \in DOMAIN db.deps[v] :
             (SeedWithRankedTarget(v, i) /\ mgr'.err = NoError) =>
                 /\ \A t \in Versions(db) \ {v} : mgr'.rank[t] = mgr.rank[t]
                 /\ mgr'.unresolved[v] = <<>>]_vars

\* a ranked version with a group of two targets, one of them a candidate: the
\* candidate was ranked in the next generation without a hint, the other was not
C18_Witness ==
    \E v \in Versions(db) : \E i \in DOMAIN db.deps[v] :
        /\ Completed /\ Ranked(v) /\ db.deps[v][i].kind \in DependsKinds
        /\ Len(Targets(v, i)) = 2 /\ Cardinality(CandidateSet(Targets(v, i))) = 1
        /\ \A t \in Range(Targets(v, i)) :
              IF IsCandidate(db, t)
              THEN mgr.rank[t] = mgr.rank[v] + 1 /\ mgr.hint[t] = NoHint
              ELSE mgr.rank[t] = 0

\* the element of the non-empty set S of versions whose package name sorts first
NameFirst(S) ==
    CHOOSE c \in S : \A d \in S : NameKey(PkgName(db, c)) <= NameKey(PkgName(db, d))

\* the element of S that comes first in the list T
ListFirst(T, S) ==
    T[CHOOSE i \in DOMAIN T : T[i] \in S /\ \A j \in 1..(i - 1) : T[j] \notin S]

\* the set the forced rule picks from: P if it is not empty, otherwise C
PickSet(T) == IF PreferredSet(T) # {} THEN PreferredSet(T) ELSE CandidateSet(T)

(***************************************************************************)
(* C19  Forced pick rule.  As claimed: in every reachable state and for    *)
(* every list of targets with a candidate, __resolve_once(T, True) is the  *)
(* first in package-name order of the conflict-free candidates P, or of    *)
(* the candidates C when P is empty.                                       *)
(***************************************************************************)
C19_ForcedPickNameFirst ==
    \A T \in TargetLists :
        CandidateSet(T) # {} => ResolveOnce(mgr, T, TRUE) = NameFirst(PickSet(T))

(* C19 as amended: the version chosen is the first of P (of C when P is    *)
(* empty) in the order of the group's expansion: alternatives left to      *)
(* right as the clause lists them, each alternative's targets in the order *)
(* the database gives them.  No sort by name takes part; without a         *)
(* candidate there is no pick.                                             *)
C19_ForcedPickListFirst ==
    \A T \in TargetLists :
        ResolveOnce(mgr, T, TRUE) =
            IF CandidateSet(T) = {} THEN NoVersion ELSE ListFirst(T, PickSet(T))

\* rank_unresolved made a forced pick for a group with several candidates: it took
\* the first alternative, whose package name sorts after another candidate's
C19_Witness ==
    /\ Completed /\ AfterRankUnresolved
    /\ \E k \in DOMAIN mgr.forced :
          LET T == Targets(mgr.forced[k].version, mgr.forced[k].clause)
          IN  /\ mgr.forced[k].candidate = T[1]
              /\ mgr.hint[T[1]] = "C"
              /\ \E t \in CandidateSet(T) :
                    NameKey(PkgName(db, t)) < NameKey(PkgName(db, T[1]))

\* v still lists a group that has t among its expanded targets
ListsTarget(v, t) ==
    \E k \in DOMAIN mgr.unresolved[v] :
        t \in Range(ExpandOrGroup(GroupOf(v, mgr.unresolved[v][k])))

\* v has a Depends, PreDepends or Recommends group with t among its expanded targets
DeclaresTarget(v, t) ==
    \E i \in DOMAIN db.deps[v] :
        db.deps[v][i].kind \in DependsKinds /\ t \in Range(Targets(v, i))

(***************************************************************************)
(* C20  notify exactness.  As claimed: in every state, notify(T) holds     *)
(* exactly the versions that list, in their unresolved list, a group with  *)
(* T among its expanded targets.                                           *)
(***************************************************************************)
C20_NotifyExact ==
    \A t, v \in Versions(db) : v \in mgr.notify[t] <=> ListsTarget(v, t)

(* C20 as amended: notify(T) only grows.  It holds every version that      *)
(* still lists a group with T among its targets, and keeps a version whose *)
(* groups with T have all been dropped: once a rank call has returned,     *)
(* notify(T) is the set of ranked versions that have a Depends, PreDepends *)
(* or Recommends group with T among its expanded targets, resolved or not. *)
C20_NotifyKeepsResolved ==
    \A t, v \in Versions(db) :
        /\ ListsTarget(v, t) => v \in mgr.notify[t]
        /\ v \in mgr.notify[t] => Ranked(v) /\ DeclaresTarget(v, t)
        /\ (Completed /\ Ranked(v) /\ DeclaresTarget(v, t)) => v \in mgr.notify[t]

\* a version is in notify(T) although its unresolved list is empty: its group with
\* target T was resolved by ranking T
C20_Witness ==
    \E t, v \in Versions(db) :
        /\ Completed /\ v \in mgr.notify[t]
        /\ mgr.unresolved[v] = <<>> /\ Ranked(t) /\ mgr.rank[t] = mgr.rank[v] + 1

\* the literal seeds of the call this step makes: the version rank_by_name passes to
\* rank (none for rank_unresolved, and none when rank_by_name raises)
SeedsOfStep ==
    IF calls' = Append(calls, Unresolved) \/ calls' = Append(calls, Dump) THEN {}
    ELSE LET package == db.byname[calls'[Len(calls')]]
         IN  IF HasVersions(db, package) THEN {db.cand[package]}
             ELSE IF Len(db.provides[package]) = 1 THEN {db.provides[package][1]}
             ELSE {}

\* the candidates of the forced picks made so far
ForcedPicks(m) == {m.forced[k].candidate : k \in DOMAIN m.forced}

\* the seeds of the rank call of the constructor
DefaultSeeds == Range(DefaultVersions(db.pkgs))

(***************************************************************************)
(* C21  Hint is provenance.  A version carries the caller's hint exactly   *)
(* when it was a literal seed of a rank call and unranked at that moment:  *)
(* D for the seeds of the constructor, W for the seed of rank_by_name, C   *)
(* for a forced pick of rank_unresolved (which always gets it).  A version *)
(* ranked in a later wave has no hint, an unranked version has none, and a *)
(* hint once given never changes.                                          *)
(***************************************************************************)
C21_HintProvenance ==
    /\ [](\A v \in Versions(db) :
            IF Ranked(v)
            THEN /\ mgr.hint[v] \in {"D", "W", "C", NoHint}
                 /\ mgr.hint[v] = "D" <=> v \in DefaultSeeds
                 /\ mgr.hint[v] = "C" <=> v \in ForcedPicks(mgr)
            ELSE mgr.hint[v] = NoHint)
    /\ [][\A v \in Versions(db) :
            IF mgr.rank[v] # 0
            THEN mgr'.hint[v] = mgr.hint[v] /\ mgr'.rank[v] = mgr.rank[v]
            ELSE mgr'.rank[v] # 0 =>
                    mgr'.hint[v] = IF v \in SeedsOfStep THEN "W"
                                   ELSE IF v \in ForcedPicks(mgr') THEN "C"
                                   ELSE NoHint]_vars

\* a wishlist seed with hint W, a version it pulled in in the next wave without a
\* hint, and a forced pick with hint C
C21_Witness ==
    /\ Completed
    /\ \E v, t, c \in Versions(db) :
          /\ mgr.hint[v] = "W" /\ DeclaresTarget(v, t)
          /\ mgr.rank[t] = mgr.rank[v] + 1 /\ mgr.hint[t] = NoHint
          /\ mgr.hint[c] = "C" /\ c \in ForcedPicks(mgr)

\* the calls of rank_by_name made so far
RankByNameCalls == {k \in DOMAIN calls : calls[k] # Unresolved /\ calls[k] # Dump}

\* the versions ranked in a wave after the first of its rank call
LaterWaveVersions == {v \in Versions(db) : Ranked(v) /\ mgr.hint[v] = NoHint}

\* generation g is a wave of this step that ranked a version unranked before
WaveRanks(g) == \E v \in Versions(db) : mgr.rank[v] = 0 /\ mgr'.rank[v] = g

(***************************************************************************)
(* C22  Termination.  Every call of rank_by_name and of rank_unresolved on *)
(* a reachable Manager returns or raises.  Every wave after the first of a *)
(* rank call ranks a version that was unranked, and so does every wave of  *)
(* rank_unresolved (the first wave of a forced pick ranks the pick): the   *)
(* waves are bounded by the rank calls plus the versions ranked without a  *)
(* hint, and the forced picks are different versions.                      *)
(***************************************************************************)
C22_Termination ==
    /\ [](/\ Running => /\ RankUnresolvedOf(mgr) # {}
                        /\ \A n \in DOMAIN db.byname : RankByNameOf(mgr, n, "W") # {}
          /\ mgr.grank <= 1 + Cardinality(RankByNameCalls) + Len(mgr.forced)
                            + Cardinality(LaterWaveVersions)
          /\ Cardinality(ForcedPicks(mgr)) = Len(mgr.forced)
          /\ \A v \in Versions(db) : mgr.rank[v] <= mgr.grank)
    /\ [][\A g \in (mgr.grank + 1)..mgr'.grank :
            \/ g = mgr.grank + 1 /\ calls' # Append(calls, Unresolved)
            \/ WaveRanks(g)]_vars

\* rank_unresolved made a forced pick whose rank call went on to a second wave: the
\* pick was unranked and has hint C, the second wave ranked a version without a hint
C22_Witness ==
    /\ Completed /\ AfterRankUnresolved
    /\ \E c \in ForcedPicks(mgr) : \E t \in LaterWaveVersions :
          mgr.hint[c] = "C" /\ DeclaresTarget(c, t) /\ mgr.rank[t] = mgr.rank[c] + 1

(***************************************************************************)
(* The program run side by side on a database and on the same database     *)
(* with the Replaces, Enhances, Suggests and Obsoletes clauses removed     *)
(* (twin).  ReplDb has packages of pairwise different names: x_1 and y_1   *)
(* are old versions, sole providers of the virtual packages p and q, with  *)
(* mirrored two-candidate Depends groups; core Replaces y_1 and Suggests   *)
(* u_1.                                                                    *)
(***************************************************************************)
ReplPkgs == <<"core", "x", "y", "u", "n", "p", "q">>

ReplVers == {"core_1", "x_2", "x_1", "y_2", "y_1", "u_1", "n_1"}

ReplDb ==
    [ pkgs     |-> ReplPkgs,
      name     |-> [p \in Range(ReplPkgs) |-> p],
      byname   |-> [n \in Range(ReplPkgs) |-> n],
      vers     |-> [p \in Range(ReplPkgs) |->
                      CASE p = "core" -> <<"core_1">>
                        [] p = "x"    -> <<"x_2", "x_1">>
                        [] p = "y"    -> <<"y_2", "y_1">>
                        [] p = "u"    -> <<"u_1">>
                        [] p = "n"    -> <<"n_1">>
                        [] OTHER      -> <<>>],
      cand     |-> [p \in Range(ReplPkgs) |->
                      CASE p = "core" -> "core_1"
                        [] p = "x"    -> "x_2"
                        [] p = "y"    -> "y_2"
                        [] p = "u"    -> "u_1"
                        [] p = "n"    -> "n_1"
                        [] OTHER      -> NoVersion],
      provides |-> [p \in Range(ReplPkgs) |->
                      CASE p = "p" -> <<"x_1">>
                        [] p = "q" -> <<"y_1">>
                        [] OTHER   -> <<>>],
      parent   |-> [x \in ReplVers |->
                      CASE x = "core_1"          -> "core"
                        [] x \in {"x_2", "x_1"}  -> "x"
                        [] x \in {"y_2", "y_1"}  -> "y"
                        [] x = "u_1"             -> "u"
                        [] OTHER                 -> "n"],
      prio     |-> [x \in ReplVers |-> IF x = "core_1" THEN "required" ELSE "optional"],
      arch     |-> [x \in ReplVers |-> "amd64"],
      foreign  |-> {"i386"},
      deps     |-> [x \in ReplVers |->
                      CASE x = "core_1" -> <<Clause("Replaces", <<(<<"y_1">>)>>),
                                             Clause("Suggests", <<(<<"u_1">>)>>)>>
                        [] x = "x_1"    -> <<Clause("Depends", <<(<<"u_1">>), (<<"n_1">>)>>)>>
                        [] x = "y_1"    -> <<Clause("Depends", <<(<<"n_1">>), (<<"u_1">>)>>)>>
                        [] OTHER        -> <<>>],
      current_state  |-> [p \in Range(ReplPkgs) |-> "NotInstalled"],
      selected_state |-> [p \in Range(ReplPkgs) |-> "Unknown"],
      current_ver    |-> [p \in Range(ReplPkgs) |-> NoVersion],
      auto_installed |-> [p \in Range(ReplPkgs) |-> FALSE] ]

InertKinds == {"Replaces", "Enhances", "Suggests", "Obsoletes"}

\* the generated databases with a clause of an inert kind, and ReplDb
InertDatabases ==
    {GenDb(c) : c \in {d \in ClauseChoices :
                          \E i \in d : GenClauses[i].kind \in InertKinds}} \cup {ReplDb}

\* Manager.__init__ on the database without the clauses of the inert kinds
ConstructWithoutInert ==
    RankWaves([NewManager EXCEPT !.without_inert = TRUE],
              SortSeqByName(DefaultVersions(db.pkgs)), "D")

InertInit ==
    /\ db \in InertDatabases
    /\ mgr \in Construct
    /\ twin \in ConstructWithoutInert
    /\ calls = <<>>
    /\ resolver = NoResolver

InertSpec == InertInit /\ [][Next]_vars

(***************************************************************************)
(* C23  Inert dependency kinds.  The rank, hint, conflicts, unresolved and *)
(* notify of every version are the same as in the execution of the same    *)
(* calls on the database with all Replaces, Enhances, Suggests and         *)
(* Obsoletes clauses removed.                                              *)
(***************************************************************************)
C23_InertKinds ==
    \A v \in Versions(db) :
        /\ mgr.rank[v] = twin.rank[v]
        /\ mgr.hint[v] = twin.hint[v]
        /\ mgr.conflicts[v] = twin.conflicts[v]
        /\ mgr.unresolved[v] = twin.unresolved[v]
        /\ mgr.notify[v] = twin.notify[v]

(***************************************************************************)
(* The program on databases that differ in one or_group: b_1 Depends on a  *)
(* group of at most MaxAlternatives alternatives, each alternative being   *)
(* the all_targets() of a dependency on one of the packages: none (no      *)
(* target), a, b, w (provided by a_1 and b_1), v (provided by p_1) and p   *)
(* (both versions).  Alternatives may repeat and overlap.                  *)
(***************************************************************************)
Alternatives == {DepNone, DepA, DepB, DepW, DepV, DepP}

OrGroups == UNION {[1..n -> Alternatives] : n \in 1..MaxAlternatives}

GroupDb(or_group) == [GenDb({}) EXCEPT !.deps["b_1"] = <<Clause("Depends", or_group)>>]

ExpandDatabases == {GroupDb(g) : g \in OrGroups}

ExpandInit ==
    /\ db \in ExpandDatabases
    /\ mgr \in Construct
    /\ twin \in Construct
    /\ calls = <<>>
    /\ resolver = NoResolver

ExpandSpec == ExpandInit /\ [][Next]_vars

\* the positions <<alternative, index>> of an or_group, and their scan order
Positions(or_group) ==
    {kl \in (DOMAIN or_group) \X (1..3) : kl[2] \in DOMAIN or_group[kl[1]]}

ScannedBefore(a, b) == a[1] < b[1] \/ (a[1] = b[1] /\ a[2] < b[2])

\* the position at which the scan of the or_group meets version x first
FirstOccurrence(or_group, x) ==
    CHOOSE a \in Positions(or_group) :
        /\ or_group[a[1]][a[2]] = x
        /\ \A b \in Positions(or_group) : or_group[b[1]][b[2]] = x => ~ScannedBefore(b, a)

NoDuplicates(r) == \A i, j \in DOMAIN r : i # j => r[i] # r[j]

(***************************************************************************)
(* C24  expand_or_group.  For every or_group the result has no duplicates, *)
(* contains exactly the versions that are a target of some alternative,    *)
(* and is ordered by first occurrence in the left-to-right scan of the     *)
(* alternatives.  The wrappers are memoized: __versions holds one entry    *)
(* per version, and once the group was expanded (its version is ranked)    *)
(* every target has its entry, expanding again adds none, and the version  *)
(* is in notify of each target of the result.                              *)
(***************************************************************************)
C24_ExpandOrGroup ==
    /\ NoDuplicates(mgr.versions)
    /\ \A v \in Versions(db) : \A i \in DOMAIN db.deps[v] :
          LET or_group == db.deps[v][i].group
              result == ExpandOrGroup(or_group)
          IN  /\ NoDuplicates(result)
              /\ Range(result) = UNION {Range(or_group[k]) : k \in DOMAIN or_group}
              /\ \A j, k \in DOMAIN result :
                    j < k => ScannedBefore(FirstOccurrence(or_group, result[j]),
                                           FirstOccurrence(or_group, result[k]))
              /\ Ranked(v) =>
                    /\ Range(result) \subseteq Range(mgr.versions)
                    /\ Touch(mgr, result) = mgr
                    /\ \A t \in Versions(db) : v \in mgr.notify[t] <=> t \in Range(result)

\* a ranked version whose group names a target in two alternatives: the result has
\* the target once, at its first position, followed by a target met later
C24_Witness ==
    \E v \in Versions(db) : \E i \in DOMAIN db.deps[v] :
        LET or_group == db.deps[v][i].group
            result == ExpandOrGroup(or_group)
        IN  /\ Completed /\ Ranked(v)
            /\ Len(or_group) = 2 /\ Len(or_group[1]) = 2
            /\ or_group[2] = <<or_group[1][2]>>
            /\ result = or_group[1]

\* the groups ranked version v still lists, as their expanded targets
UnresolvedTargets(v) ==
    {ExpandOrGroup(GroupOf(v, mgr.unresolved[v][k])) : k \in DOMAIN mgr.unresolved[v]}

(***************************************************************************)
(* C25  Quiescence after automatic resolution.  Whenever a rank call has   *)
(* returned (the constructor, rank_by_name, the forced picks of            *)
(* rank_unresolved), no group left in the unresolved list of a ranked      *)
(* version has a ranked target, and the unforced pick rule has no decision *)
(* for it: a version whose group has a target that gained a rank or a      *)
(* conflict edge in a wave was examined again in that wave.                *)
(***************************************************************************)
C25_Quiescence ==
    Completed =>
        \A v \in Versions(db) : Ranked(v) =>
            \A targets \in UnresolvedTargets(v) :
                /\ ~AnyRanked(mgr, targets)
                /\ ResolveOnce(mgr, targets, FALSE) = NoVersion

\* a ranked version listed a group of two conflict-free candidates; a later call
\* ranked a version in conflict with one of them, and the wave examined the group
\* again: the other candidate was ranked in the next wave and the group dropped
C25_Witness ==
    \E v, t, u, x \in Versions(db) : \E i \in DOMAIN db.deps[v] :
        /\ Completed /\ Ranked(v) /\ mgr.rank[v] < mgr.rank[x]
        /\ db.deps[v][i].kind \in DependsKinds /\ ~Listed(v, i)
        /\ Range(Targets(v, i)) = {t, u} /\ t # u
        /\ IsCandidate(db, t) /\ IsCandidate(db, u)
        /\ mgr.conflicts[u] = {x} /\ mgr.conflicts[t] = {}
        /\ mgr.rank[u] = 0 /\ mgr.rank[t] = mgr.rank[x] + 1 /\ mgr.hint[t] = NoHint

\* the versions rank_by_name passed to rank in the calls made so far
NamedSeeds ==
    {db.cand[db.byname[n]] : n \in {x \in Named : HasVersions(db, db.byname[x])}}
    \cup {v \in Versions(db) : ProviderSeed(v)}

\* v is an expanded target of a Depends, PreDepends or Recommends group of a
\* version ranked in an earlier generation
PulledIn(v) ==
    \E source \in Versions(db) :
        Ranked(source) /\ mgr.rank[source] < mgr.rank[v] /\ DeclaresTarget(source, v)

(***************************************************************************)
(* C26  Every ranked version is justified.  In every reachable state a     *)
(* ranked version without a hint has rank at least 2, is its package's     *)
(* candidate version and is an expanded target of a Depends, PreDepends or *)
(* Recommends group of a version of strictly smaller rank; a ranked        *)
(* version with a hint is a seed: a default version (D), a version named   *)
(* to rank_by_name (W) or a forced pick (C), the latter again a candidate  *)
(* and a target of a group of a version of smaller rank.                   *)
(***************************************************************************)
C26_RankedIsJustified ==
    \A v \in Versions(db) : Ranked(v) =>
        CASE mgr.hint[v] = NoHint -> mgr.rank[v] >= 2 /\ IsCandidate(db, v) /\ PulledIn(v)
          [] mgr.hint[v] = "D"    -> v \in DefaultSeeds /\ mgr.rank[v] = 1
          [] mgr.hint[v] = "W"    -> v \in NamedSeeds
          [] mgr.hint[v] = "C"    -> v \in ForcedPicks(mgr) /\ IsCandidate(db, v) /\ PulledIn(v)
          [] OTHER                -> FALSE

\* a chain of two automatic picks: a version ranked without a hint on account of
\* a version that was itself ranked without a hint
C26_Witness ==
    \E source, v \in Versions(db) :
        /\ Completed /\ mgr.hint[source] = NoHint /\ mgr.rank[source] >= 2
        /\ mgr.hint[v] = NoHint /\ mgr.rank[v] = mgr.rank[source] + 1
        /\ DeclaresTarget(source, v)
        /\ \A other \in Versions(db) \ {source} : ~DeclaresTarget(other, v)

(***************************************************************************)
(* The program on a wishlist given as a set of names (aptorphan-conf       *)
(* writes a set literal): `for package_name in wishlist` enumerates it in  *)
(* an order of Python's choosing.  mgr is the execution that ranks the     *)
(* names in the order of `calls`; twin is an execution on the same set     *)
(* enumerated in any order, run when the wishlist is complete.  The        *)
(* databases have packages of pairwise different names: the generated ones *)
(* and MirrorDb, which is ReplDb without the clauses of core.              *)
(***************************************************************************)
MirrorDb == [ReplDb EXCEPT !.deps["core_1"] = <<>>]

OrderDatabases == {GenDb(c) : c \in ClauseChoices} \cup {MirrorDb}

RECURSIVE WishlistRun(_, _)
\* for package_name in wishlist: manager.rank_by_name(package_name, 'W')
WishlistRun(m, order) ==
    IF order = <<>> \/ m.err # NoError THEN {m}
    ELSE UNION {WishlistRun(m1, Tail(order)) : m1 \in RankByNameOf(m, Head(order), "W")}

OrderInit ==
    /\ db \in OrderDatabases
    /\ mgr \in Construct
    /\ twin \in Construct
    /\ calls = <<>>
    /\ resolver = NoResolver

\* the next name of the wishlist in the enumeration mgr follows
WishInOrder(package_name) ==
    /\ mgr.err = NoError
    /\ Unresolved \notin Range(calls) /\ package_name \notin Range(calls)
    /\ Len(calls) < MaxCalls - 1
    /\ mgr' \in RankByNameOf(mgr, package_name, "W")
    /\ calls' = Append(calls, package_name)
    /\ UNCHANGED <<db, twin, resolver>>

\* manager.rank_unresolved(); the twin has ranked the same names in its own order
EscalateBoth ==
    /\ mgr.err = NoError
    /\ Unresolved \notin Range(calls)
    /\ mgr' \in RankUnresolvedOf(mgr)
    /\ \E order \in Perms(Range(calls)) : \E m \in WishlistRun(twin, order) :
          twin' \in (IF m.err # NoError THEN {m} ELSE RankUnresolvedOf(m))
    /\ calls' = Append(calls, Unresolved)
    /\ UNCHANGED <<db, resolver>>

OrderNext ==
    \/ \E package_name \in DOMAIN db.byname : WishInOrder(package_name)
    \/ EscalateBoth

OrderSpec == OrderInit /\ [][OrderNext]_vars

\* the expected set of an execution
RankedSet(m) == {v \in Versions(db) : m.rank[v] # 0}

(***************************************************************************)
(* C27  Wishlist order independence.  Two executions that rank the same    *)
(* wishlist names in different orders and then call rank_unresolved end    *)
(* with the same set of ranked versions.                                   *)
(***************************************************************************)
C27_WishlistOrderIndependent ==
    (AfterRankUnresolved /\ mgr.err = NoError /\ twin.err = NoError) =>
        RankedSet(mgr) = RankedSet(twin)

(***************************************************************************)
(* The Resolver of the graph tool (src/aptorphan-graph.py).                *)
(*   versions   the keys of Resolver.__versions                            *)
(*   conflicts  Resolver.__conflicts                                       *)
(*   pending    Resolver.__pending: entries (source, targets)              *)
(*   err        the exception that ended the program (NoError: none)       *)
(*   pc         the position of the program: "put" in the loop of put      *)
(*              calls of __main__; in resolve "trivial" (the inner while), *)
(*              "candidate" and "any" (the two designated rounds),         *)
(*              "returned"; "raised in put", "raised in resolve"           *)
(* The put calls made so far are recorded in `calls`.                      *)
(***************************************************************************)
NewResolver ==
    [ versions |-> {}, conflicts |-> {}, pending |-> <<>>, err |-> NoError, pc |-> "put" ]

\* the order of Package.display_name(): get_fullname(pretty=True), the name for a
\* native package and name:arch for a foreign one
DisplayKey(package) ==
    2 * NameKey(db.name[package]) + (IF db.name[package] = package THEN 0 ELSE 1)

RECURSIVE PutDepends(_, _, _)
\* put, handler: the loop over version.relates(Global.depends); relates raises on
\* a Depends or PreDepends group without targets and skips such a Recommends group
PutDepends(r, version, i) ==
    IF i > Len(db.deps[version]) THEN r
    ELSE LET kind == db.deps[version][i].kind
             targets == ExpandOrGroup(db.deps[version][i].group)
         IN  IF kind \notin {"Depends", "PreDepends", "Recommends"}
             THEN PutDepends(r, version, i + 1)
             ELSE IF targets # <<>>
             THEN PutDepends([r EXCEPT !.pending =
                                 Append(@, [source |-> version, targets |-> targets])],
                             version, i + 1)
             ELSE IF kind = "Recommends" THEN PutDepends(r, version, i + 1)
             ELSE [r EXCEPT !.err = "invalid dependency"]

RECURSIVE PutConflicts(_, _, _)
\* put, handler: the loop over version.relates(Global.conflicts)
PutConflicts(r, version, i) ==
    IF i > Len(db.deps[version]) THEN r
    ELSE LET kind == db.deps[version][i].kind
             targets == ExpandOrGroup(db.deps[version][i].group)
         IN  IF kind \in {"Breaks", "Conflicts"}
             THEN PutConflicts([r EXCEPT !.conflicts = @ \cup Range(targets)], version, i + 1)
             ELSE PutConflicts(r, version, i + 1)

\* Resolver.put: compute_if_absent runs the handler for a new version only and
\* stores the version when the handler has returned
PutOf(r, version) ==
    IF version \in r.versions THEN r
    ELSE LET r1 == PutDepends(r, version, 1)
         IN  IF r1.err # NoError THEN r1
             ELSE [PutConflicts(r1, version, 1) EXCEPT !.versions = @ \cup {version}]

RECURSIVE InsertPending(_, _)
InsertPending(sorted, e) ==
    IF sorted = <<>> THEN <<e>>
    ELSE IF DisplayKey(db.parent[e.source]) < DisplayKey(db.parent[Head(sorted).source])
         THEN <<e>> \o sorted
         ELSE <<Head(sorted)>> \o InsertPending(Tail(sorted), e)

RECURSIVE SortPending(_)
\* Resolver.__sort_pending: a stable sort by the display name of the source's package
SortPending(pending) ==
    IF pending = <<>> THEN <<>>
    ELSE InsertPending(SortPending(SubSeq(pending, 1, Len(pending) - 1)), pending[Len(pending)])

RECURSIVE TrivialDropAmbiguous(_, _, _, _)
\* the loop of __resolve_all_trivial_targets dropping an entry with several targets
\* instead of keeping it pending
TrivialDropAmbiguous(r, entries, i, progress) ==
    IF i > Len(entries) \/ r.err # NoError THEN [r |-> r, progress |-> progress]
    ELSE LET NotInConflict(t) == t \notin r.conflicts
             targets == SelectSeq(entries[i].targets, NotInConflict)
             kept == [r EXCEPT !.pending =
                         Append(@, [source |-> entries[i].source, targets |-> targets])]
         IN  IF \E t \in Range(entries[i].targets) : t \in r.versions
             THEN TrivialDropAmbiguous(r, entries, i + 1, progress)
             ELSE IF Len(targets) = 0 THEN TrivialDropAmbiguous(r, entries, i + 1, progress)
             ELSE IF Len(targets) > 1 THEN TrivialDropAmbiguous(r, entries, i + 1, progress)
             ELSE IF IsCandidate(db, targets[1])
                  THEN TrivialDropAmbiguous(PutOf(r, targets[1]), entries, i + 1, TRUE)
                  ELSE TrivialDropAmbiguous(kept, entries, i + 1, progress)

RECURSIVE Trivial(_, _, _, _)
\* __resolve_all_trivial_targets, the loop over the entries taken from pending
Trivial(r, entries, i, progress) ==
    IF i > Len(entries) \/ r.err # NoError THEN [r |-> r, progress |-> progress]
    ELSE LET NotInConflict(t) == t \notin r.conflicts
             targets == SelectSeq(entries[i].targets, NotInConflict)
             kept == [r EXCEPT !.pending =
                         Append(@, [source |-> entries[i].source, targets |-> targets])]
         IN  IF \E t \in Range(entries[i].targets) : t \in r.versions
             THEN Trivial(r, entries, i + 1, progress)
             ELSE IF Len(targets) = 0 THEN Trivial(r, entries, i + 1, progress)
             ELSE IF Len(targets) > 1 THEN Trivial(kept, entries, i + 1, progress)
             ELSE IF IsCandidate(db, targets[1])
                  THEN Trivial(PutOf(r, targets[1]), entries, i + 1, TRUE)
                  ELSE Trivial(kept, entries, i + 1, progress)

\* Resolver.__resolve_all_trivial_targets: [r, progress]
TrivialPass(r) == Trivial([r EXCEPT !.pending = <<>>], SortPending(r.pending), 1, FALSE)

RECURSIVE Firsts(_, _)
\* __resolve_one_designated_target, the first loop: for every pending entry the
\* first target that satisfies the predicate, in the order of pending
Firsts(pending, candidates_only) ==
    IF pending = <<>> THEN <<>>
    ELSE LET Satisfies(t) == ~candidates_only \/ IsCandidate(db, t)
             targets == SelectSeq(Head(pending).targets, Satisfies)
         IN  (IF targets # <<>> THEN <<targets[1]>> ELSE <<>>)
             \o Firsts(Tail(pending), candidates_only)

\* sorted(counter.items(), key = (-count, display name))[0][0]: the sort is stable,
\* so targets equal in both keep the order in which counter met them
Designated(firsts) ==
    LET keys == AppendNew(<<>>, firsts)
        Count(t) == Cardinality({k \in DOMAIN firsts : firsts[k] = t})
        Less(t, u) == \/ Count(t) > Count(u)
                      \/ Count(t) = Count(u)
                         /\ DisplayKey(db.parent[t]) < DisplayKey(db.parent[u])
    IN  IF keys = <<>> THEN NoVersion
        ELSE keys[CHOOSE j \in DOMAIN keys : \A k \in DOMAIN keys :
                      /\ ~Less(keys[k], keys[j])
                      /\ k < j => Less(keys[j], keys[k])]

\* Resolver.__resolve_one_designated_target(predicate): [r, found]
DesignatedTarget(r, candidates_only) ==
    LET candidate == Designated(Firsts(r.pending, candidates_only))
    IN  IF candidate = NoVersion THEN [r |-> r, found |-> FALSE]
        ELSE [r |-> PutOf(r, candidate), found |-> TRUE]

\* the databases of the graph tool: those of the expected-set resolver, and one on
\* which a version met during resolve has a Depends group without targets
InvalidDb == [GenDb({1}) EXCEPT !.deps["a_1"] = <<Clause("Depends", <<DepNone>>)>>]

GraphDatabases == Databases \cup {InvalidDb}

GraphInit ==
    /\ db \in GraphDatabases
    /\ mgr = NewManager
    /\ twin = NewManager
    /\ calls = <<>>
    /\ resolver = NewResolver

\* __main__: resolver.put(version) for the implicit and explicit versions
Put(version) ==
    /\ resolver.pc = "put" /\ Len(calls) < MaxPuts
    /\ LET r == PutOf(resolver, version)
       IN  resolver' = [r EXCEPT !.pc = IF r.err # NoError THEN "raised in put" ELSE "put"]
    /\ calls' = Append(calls, version)
    /\ UNCHANGED <<db, mgr, twin>>

\* resolve: one evaluation of `while self.__resolve_all_trivial_targets()`, the
\* first one being the call of resolve
ResolveTrivial ==
    /\ resolver.pc \in {"put", "trivial"}
    /\ LET t == TrivialPass(resolver)
       IN  resolver' = [t.r EXCEPT !.pc = IF t.r.err # NoError THEN "raised in resolve"
                                         ELSE IF t.progress THEN "trivial" ELSE "candidate"]
    /\ UNCHANGED <<db, mgr, twin, calls>>

\* resolve: if self.__resolve_one_designated_target(Model.Version.is_candidate_version)
ResolveCandidate ==
    /\ resolver.pc = "candidate"
    /\ LET d == DesignatedTarget(resolver, TRUE)
       IN  resolver' = [d.r EXCEPT !.pc = IF d.r.err # NoError THEN "raised in resolve"
                                         ELSE IF d.found THEN "trivial" ELSE "any"]
    /\ UNCHANGED <<db, mgr, twin, calls>>

\* resolve: elif self.__resolve_one_designated_target(lambda v: True), else return
ResolveAny ==
    /\ resolver.pc = "any"
    /\ LET d == DesignatedTarget(resolver, FALSE)
       IN  resolver' = [d.r EXCEPT !.pc = IF d.r.err # NoError THEN "raised in resolve"
                                         ELSE IF d.found THEN "trivial" ELSE "returned"]
    /\ UNCHANGED <<db, mgr, twin, calls>>

ResolveStep == ResolveTrivial \/ ResolveCandidate \/ ResolveAny

GraphNext ==
    \/ \E version \in Versions(db) : Put(version)
    \/ ResolveTrivial
    \/ ResolveCandidate
    \/ ResolveAny

\* resolve is a loop of the one thread of the program: it keeps running
GraphSpec == GraphInit /\ [][GraphNext]_vars /\ WF_vars(ResolveStep)

(***************************************************************************)
(* C28: the Resolver of the graph tool                                     *)
(***************************************************************************)
\* the targets of group i of version v, as relates() yields them
GroupTargets(v, i) == Range(ExpandOrGroup(db.deps[v][i].group))

\* the Depends, PreDepends and Recommends groups of v
DependsGroups(v) ==
    {i \in DOMAIN db.deps[v] : db.deps[v][i].kind \in {"Depends", "PreDepends", "Recommends"}}

\* group i of v is silently ignored: every target is in the conflict set
Ignored(r, v, i) == GroupTargets(v, i) \subseteq r.conflicts

\* every Depends/PreDepends/Recommends group of every version of the set has a
\* target in the set or is ignored
GraphClosed(r) ==
    \A v \in r.versions : \A i \in DependsGroups(v) :
        \/ GroupTargets(v, i) \cap r.versions # {}
        \/ Ignored(r, v, i)

\* what resolve has returned: pending is empty, the set holds every version
\* passed to put and is closed
ReturnedSet(r) ==
    /\ r.pending = <<>>
    /\ Range(calls) \subseteq r.versions
    /\ GraphClosed(r)

\* relates() raises for v: a Depends or PreDepends group of v has no targets
InvalidDependency(v) ==
    \E i \in DOMAIN db.deps[v] :
        /\ db.deps[v][i].kind \in {"Depends", "PreDepends"}
        /\ GroupTargets(v, i) = {}

\* C28 (as stated): for every model and every sequence of put calls resolve
\* terminates with an empty pending list, and the returned set contains every
\* version passed to put and is closed up to the silently ignored groups: resolve
\* never ends by an exception, and what it returns is such a set.
C28_ResolveReturns ==
    /\ resolver.pc # "raised in resolve"
    /\ resolver.pc = "returned" => ReturnedSet(resolver)

\* the variant of resolve: the versions not yet in the set, then the position in
\* the loop
Variant(r) ==
    4 * Cardinality(Versions(db) \ r.versions)
    + (CASE r.pc = "put" -> 4
         [] r.pc = "trivial" -> 3
         [] r.pc = "candidate" -> 2
         [] r.pc = "any" -> 1
         [] OTHER -> 0)

\* C28 (amended): resolve always ends, by returning or by the 'invalid dependency'
\* exception of a put it makes of a version with a Depends or PreDepends group
\* without targets: every step of it decreases a natural number. When it
\* returns, pending is empty and the returned set contains every version passed
\* to put and is closed up to the silently ignored groups; each designated round
\* that continues the loop adds exactly one version not yet in the set.
C28_ResolveEnds ==
    /\ [](/\ resolver.pc = "returned" => ReturnedSet(resolver)
          /\ resolver.pc = "raised in resolve" =>
                /\ resolver.err = "invalid dependency"
                /\ \E v \in Versions(db) \ resolver.versions : InvalidDependency(v))
    /\ [][/\ resolver.pc \in {"candidate", "any"} /\ resolver'.pc = "trivial" =>
               \E v \in Versions(db) \ resolver.versions :
                   resolver'.versions = resolver.versions \cup {v}
          /\ resolver'.pc \notin {"put", "raised in put"} =>
               Variant(resolver') < Variant(resolver)]_vars

\* resolve has returned a set in which a group with targets is ignored because all of them are in the conflict set
C28_Witness ==
    /\ resolver.pc = "returned"
    /\ calls # <<>>
    /\ \E v \in resolver.versions : \E i \in DependsGroups(v) :
          /\ GroupTargets(v, i) # {}
          /\ GroupTargets(v, i) \cap resolver.versions = {}
          /\ Ignored(resolver, v, i)
====
